---- MODULE Spec2Model ----
(***************************************************************************)
(* A model of the smart-store client: the collections held by Layout, the  *)
(* derived metrics of the Products, Dashboard and Cash pages, and the      *)
(* formatters and validators of the validation module.                     *)
(*                                                                         *)
(* JavaScript numbers are modelled as exact rationals extended with NaN    *)
(* and the two infinities: IEEE-754 rounding of the last bit is not        *)
(* modelled.  JavaScript strings are sequences of one-character strings.   *)
(* Date values are local calendar dates [y, m, d]; every date test of the  *)
(* modelled code compares against first/last instants of a local month,    *)
(* for which the day is exact.                                             *)
(***************************************************************************)
EXTENDS Integers, Sequences, FiniteSets, TLC

VARIABLES
    products,        \* Layout.products: the last GET products response
    ticketSales,     \* Layout.ticketSales: the last GET sales response
    transactions,    \* Layout.transactions: the last GET transactions response
    now,             \* the clock value read by the last memo computation
    competency,      \* Dashboard.competency: a month, or NoCompetency for ""
    goals,           \* Dashboard.goals
    cashCompetency,  \* Cash.competency
    value,           \* the text of a tax-id form field
    edits,           \* how many characters of the field were overtyped
    fn,              \* the validator or formatter called last
    arg,             \* the JavaScript value it was called with
    outcome,         \* what the call did: a returned value or a thrown error
    cart,            \* Sales.cart: the lines of the sale being composed
    searchTerm,      \* Sales.searchTerm: the text of the product search box
    searchResults,   \* Sales.searchResults: the products listed under it
    selectedProduct, \* Sales.selectedProduct: a product object, or NoProduct
    quantity,        \* Sales.quantity
    uniqueIdentifier,\* Sales.uniqueIdentifier: the IMEI / serial number field
    customerName,    \* Sales.customerName
    customerWhatsapp,\* Sales.customerWhatsapp
    user,            \* AuthContext.user as Sales sees it, or NoUser
    submitted,       \* <<payload>> of the last call of onAddSale, or <<>>
    token,           \* App.token: a token, or NoToken for null
    storedToken,     \* localStorage 'token', or NoToken when there is none
    isLoading,       \* App.isLoading
    calls,           \* the HTTP requests waiting for their response
    issued,          \* how many requests were sent so far
    held,            \* per collection, the GET whose body it holds (0: none)
    settled,         \* <<outcome>> of the apiCall that settled last, or <<>>
    purchaseItems,   \* PurchaseModal.items
    editingItemIndex,\* PurchaseModal.editingItemIndex, or NoIndex for null
    itemProduct,     \* PurchaseModal.selectedProduct
    itemQuantity,    \* PurchaseModal.quantity, a text
    itemSearchTerm,  \* PurchaseModal.searchTerm
    itemResults,     \* PurchaseModal.searchResults
    unitCost,        \* PurchaseModal.unitCost, a text
    editedPosition,  \* history: where the item handleEditItem chose is now
    currentPage,     \* Cash.currentPage
    statusFilter,    \* Cash.statusFilter
    typeFilter,      \* Cash.typeFilter
    lookupTimer,     \* Sales: the debounce timer of the customer search is set
    lookups,         \* Sales: the customer lookups waiting for their response
    lookupsIssued,   \* how many customer lookups were sent so far
    foundCustomer,   \* Sales.foundCustomer, or NoCustomer for null
    isCustomerLoading \* Sales.isCustomerLoading

\* the state of the sales screen and of its calls to onAddSale
saleScreen == <<cart, searchTerm, searchResults, selectedProduct, quantity,
                uniqueIdentifier, customerName, customerWhatsapp, user,
                submitted>>

\* the session App keeps
session == <<token, storedToken, isLoading>>

\* the requests of apiCall and what Layout made of their responses
network == <<calls, issued, held, settled>>

\* the item fields of the purchase form
purchaseForm ==
    <<purchaseItems, editingItemIndex, itemProduct, itemQuantity,
      itemSearchTerm, itemResults, unitCost, editedPosition>>

\* the page and the filters of the list of the Cash page
cashList == <<currentPage, statusFilter, typeFilter>>

\* the customer search of the sales screen
customerLookup ==
    <<lookupTimer, lookups, lookupsIssued, foundCustomer, isCustomerLoading>>

\* the state of the forms and lists of the pages
formState == <<purchaseForm, cashList, customerLookup>>

\* the state of the parts added to the sales screen and the pages
pageState == <<session, network, formState>>

\* what App and Layout leave alone
besideLayout ==
    <<now, competency, goals, cashCompetency, value, edits, fn, arg, outcome,
      cart, searchTerm, searchResults, selectedProduct, quantity,
      uniqueIdentifier, customerName, customerWhatsapp, submitted, formState>>

vars == <<products, ticketSales, transactions, now, competency, goals,
          cashCompetency, value, edits, fn, arg, outcome, saleScreen,
          pageState>>

(***************************************************************************)
(* JavaScript numbers.  [n, d] with d > 0 is the rational n/d in lowest    *)
(* terms; d = 0 is a non-finite value: n = 0 NaN, n = 1 +Infinity,         *)
(* n = -1 -Infinity.                                                       *)
(***************************************************************************)
Abs(x) == IF x < 0 THEN -x ELSE x

Sgn(x) == IF x > 0 THEN 1 ELSE IF x < 0 THEN -1 ELSE 0

RECURSIVE GCD(_, _)
GCD(a, b) == IF b = 0 THEN a ELSE GCD(b, a % b)

Num(n, d) ==
    IF d = 0 THEN [n |-> Sgn(n), d |-> 0]
    ELSE LET g == GCD(Abs(n), Abs(d))
         IN  [n |-> Sgn(d) * (n \div g), d |-> Abs(d) \div g]

I(i) == [n |-> i, d |-> 1]

NaN == [n |-> 0, d |-> 0]

IsNaN(a) == a.d = 0 /\ a.n = 0

IsFinite(a) == a.d # 0

JsNeg(a) == [n |-> -a.n, d |-> a.d]

JsDiv(a, b) ==
    IF IsNaN(a) \/ IsNaN(b) THEN NaN
    ELSE IF ~IsFinite(a)
         THEN IF ~IsFinite(b) THEN NaN
              ELSE Num(IF b.n < 0 THEN -a.n ELSE a.n, 0)
    ELSE IF ~IsFinite(b) THEN I(0)
    ELSE Num(a.n * b.d, a.d * b.n)

JsMul(a, b) ==
    IF IsNaN(a) \/ IsNaN(b) THEN NaN
    ELSE IF ~IsFinite(a) \/ ~IsFinite(b) THEN Num(Sgn(a.n) * Sgn(b.n), 0)
    ELSE Num(a.n * b.n, a.d * b.d)

JsAdd(a, b) ==
    IF IsNaN(a) \/ IsNaN(b) THEN NaN
    ELSE IF ~IsFinite(a) /\ ~IsFinite(b) THEN (IF a.n = b.n THEN a ELSE NaN)
    ELSE IF ~IsFinite(a) THEN a
    ELSE IF ~IsFinite(b) THEN b
    ELSE Num(a.n * b.d + b.n * a.d, a.d * b.d)

JsSub(a, b) == JsAdd(a, JsNeg(b))

JsGt(a, b) ==
    IF IsNaN(a) \/ IsNaN(b) THEN FALSE
    ELSE IF ~IsFinite(a) /\ ~IsFinite(b) THEN a.n > b.n
    ELSE IF ~IsFinite(a) THEN a.n > 0
    ELSE IF ~IsFinite(b) THEN b.n < 0
    ELSE a.n * b.d > b.n * a.d

JsLe(a, b) ==
    IF IsNaN(a) \/ IsNaN(b) THEN FALSE ELSE ~JsGt(a, b)

(***************************************************************************)
(* Dates.                                                                  *)
(***************************************************************************)
IsLeap(y) == (y % 4 = 0 /\ y % 100 # 0) \/ y % 400 = 0

\* new Date(year, month, 0).getDate(): the last day of month m of year y
DaysInMonth(y, m) ==
    IF m = 2 THEN (IF IsLeap(y) THEN 29 ELSE 28)
    ELSE IF m \in {4, 6, 9, 11} THEN 30 ELSE 31

\* the order of Date values
DateKey(t) == (t.y * 12 + t.m) * 32 + t.d

Date(y, m, d) == [y |-> y, m |-> m, d |-> d]

(***************************************************************************)
(* Array helpers.                                                          *)
(***************************************************************************)
\* s.filter(Keep)
Filter(s, Keep(_)) == SelectSeq(s, Keep)

\* s.reduce((sum, x) => sum + F(x), 0)
SumOver(s, F(_)) ==
    LET acc[i \in 0..Len(s)] ==
            IF i = 0 THEN I(0) ELSE JsAdd(acc[i - 1], F(s[i]))
    IN  acc[Len(s)]

RemoveAt(s, i) == SubSeq(s, 1, i - 1) \o SubSeq(s, i + 1, Len(s))

\* the arrays a backend that applied one more mutation can answer a GET with
NextArrays(cur, samples, max) ==
    {Append(cur, x) : x \in IF Len(cur) < max THEN samples ELSE {}}
    \cup {RemoveAt(cur, i) : i \in DOMAIN cur}

(***************************************************************************)
(* Records of the collections.                                             *)
(*   product      [id, cost, stock]                                        *)
(*   sale item    [type, item |-> [id, kind, cost], quantity]              *)
(*   ticket sale  [timestamp, total, items]                                *)
(*   transaction  [amount, type, category, status, timestamp]              *)
(***************************************************************************)
Product(id, cost, stock) == [id |-> id, cost |-> cost, stock |-> stock]

ProductItem(id, cost, qty) ==
    [type |-> "product", item |-> [id |-> id, kind |-> "Product", cost |-> cost],
     quantity |-> qty]

ServiceItem(id, qty) ==
    [type |-> "service", item |-> [id |-> id, kind |-> "Service", cost |-> 0],
     quantity |-> qty]

Sale(timestamp, total, items) ==
    [timestamp |-> timestamp, total |-> total, items |-> items]

\* the clock never runs backwards between two readings
ClockRead(samples) == {t \in samples : DateKey(t) >= DateKey(now)}

(***************************************************************************)
(* Layout.fetchData: a collection is replaced by the body of a GET.        *)
(***************************************************************************)
FetchProducts(data, clock) ==
    /\ products' = data
    /\ now' = clock
    /\ UNCHANGED <<ticketSales, transactions, competency, goals, cashCompetency,
                   value, edits, fn, arg, outcome>>
    /\ UNCHANGED saleScreen
    /\ UNCHANGED pageState

FetchSales(data, clock) ==
    /\ ticketSales' = data
    /\ now' = clock
    /\ UNCHANGED <<products, transactions, competency, goals, cashCompetency,
                   value, edits, fn, arg, outcome>>
    /\ UNCHANGED saleScreen
    /\ UNCHANGED pageState

FetchTransactions(data, clock) ==
    /\ transactions' = data
    /\ now' = clock
    /\ UNCHANGED <<products, ticketSales, competency, goals, cashCompetency,
                   value, edits, fn, arg, outcome>>
    /\ UNCHANGED saleScreen
    /\ UNCHANGED pageState

(***************************************************************************)
(* The Map of units sold per product id, as an array of [key, val] entries *)
(* in insertion order.                                                     *)
(***************************************************************************)
MapHas(map, key) == \E i \in DOMAIN map : map[i].key = key

\* map.get(key) || 0
MapGetOr0(map, key) ==
    IF MapHas(map, key)
    THEN map[CHOOSE i \in DOMAIN map : map[i].key = key].val
    ELSE 0

MapSet(map, key, val) ==
    IF MapHas(map, key)
    THEN [i \in DOMAIN map |->
            IF map[i].key = key THEN [key |-> key, val |-> val] ELSE map[i]]
    ELSE Append(map, [key |-> key, val |-> val])

\* all sale items of the sales, in order
RECURSIVE ItemsOf(_)
ItemsOf(sales) ==
    IF sales = <<>> THEN <<>> ELSE Head(sales).items \o ItemsOf(Tail(sales))

\* one step of items.forEach: the map after the item
CountItem(map, item) ==
    IF item.type = "product"
    THEN MapSet(map, item.item.id, MapGetOr0(map, item.item.id) + item.quantity)
    ELSE map

RECURSIVE CountItems(_, _)
CountItems(map, items) ==
    IF items = <<>> THEN map
    ELSE CountItems(CountItem(map, Head(items)), Tail(items))

ProductSalesMap(sales) == CountItems(<<>>, ItemsOf(sales))

(***************************************************************************)
(* The Products page.                                                      *)
(***************************************************************************)
\* the sales the Products page counts: those not before the first of the month
ProductsSalesThisMonth ==
    LET startOfMonth == Date(now.y, now.m, 1)
    IN  Filter(ticketSales, LAMBDA sale : DateKey(sale.timestamp) >= DateKey(startOfMonth))

\* a classifier that tests stock = 0 where the page tests stock <= 0
ProductMetricsStrictZero(p, soldQty, today) ==
    LET status ==
            IF p.stock = 0 THEN "Ruptura"
            ELSE IF soldQty > 0
                 THEN LET daysOfStock == JsDiv(I(p.stock), JsDiv(I(soldQty), I(today)))
                      IN  IF JsLe(daysOfStock, I(7)) THEN "Risco"
                          ELSE IF JsLe(daysOfStock, I(30)) THEN "Seguranca"
                          ELSE "Excesso"
                 ELSE "Excesso"
    IN  [id |-> p.id, stock |-> p.stock, status |-> status,
         turnover |-> IF p.stock > 0 THEN JsDiv(I(soldQty), I(p.stock)) ELSE I(0)]

\* the body of products.map(p => ...): one product's status and turnover
ProductMetrics(p, soldQty, today) ==
    LET turnover == IF p.stock > 0 THEN JsDiv(I(soldQty), I(p.stock)) ELSE I(0)
        status ==
            IF p.stock <= 0 THEN "Ruptura"
            ELSE IF soldQty > 0
                 THEN LET dailySales == JsDiv(I(soldQty), I(today))
                      IN  IF JsGt(dailySales, I(0))
                          THEN LET daysOfStock == JsDiv(I(p.stock), dailySales)
                               IN  IF JsLe(daysOfStock, I(7)) THEN "Risco"
                                   ELSE IF JsLe(daysOfStock, I(30)) THEN "Seguranca"
                                   ELSE "Excesso"
                          ELSE "Excesso"
                 ELSE "Excesso"
    IN  [id |-> p.id, stock |-> p.stock, status |-> status, turnover |-> turnover]

productsWithMetrics ==
    LET productSalesMap == ProductSalesMap(ProductsSalesThisMonth)
        today == now.d
    IN  [i \in DOMAIN products |->
            ProductMetrics(products[i], MapGetOr0(productSalesMap, products[i].id), today)]

(***************************************************************************)
(* The Products page under a changing catalogue and sales history.         *)
(***************************************************************************)
MaxCatalog == 2

MaxHistory == 2

CatalogSamples ==
    {Product("p1", 2, s) : s \in {-1, 0, 35, 36, 100, 150, 151}}
    \cup {Product("p2", 3, 10)}

HistorySamples ==
    { Sale(Date(2024, 2, 5), 500, <<ProductItem("p1", 2, 50)>>),
      Sale(Date(2024, 2, 5), 260, <<ProductItem("p1", 2, 20), ServiceItem("s1", 1)>>),
      Sale(Date(2024, 1, 20), 300, <<ProductItem("p1", 2, 30)>>),
      Sale(Date(2024, 3, 1), 9, <<ProductItem("p2", 3, 1)>>) }

ProductsClock == {Date(2024, 2, 10), Date(2024, 2, 29), Date(2024, 3, 1)}

DefaultGoals == [predictedAvgMargin |-> 40, netProfit |-> 5000]

NoCompetency == [y |-> 0, m |-> 0]

\* a JavaScript value: its type, its characters when it is a string, and the
\* number n / d when it is a number (true is 1 and false is 0)
JsUndefined == [t |-> "undefined", s |-> <<>>, n |-> 0, d |-> 1]

\* no call was made yet
NoOutcome == [kind |-> "none", v |-> JsUndefined]

\* the state of the parts a specification leaves alone
IdleCollections == products = <<>> /\ ticketSales = <<>> /\ transactions = <<>>

IdlePages ==
    /\ competency = NoCompetency
    /\ goals = DefaultGoals
    /\ cashCompetency = NoCompetency

IdleForm == value = <<>> /\ edits = 0

IdleCall == fn = "none" /\ arg = JsUndefined /\ outcome = NoOutcome

\* no product is selected: the null of selectedProduct
NoProduct ==
    [id |-> "", barcode |-> <<>>, name |-> <<>>, price |-> 0, stock |-> 0,
     category |-> <<>>, requiresUniqueIdentifier |-> FALSE]

\* nobody is logged in: the null of AuthContext.user
NoUser == [id |-> "", name |-> ""]

\* a session is open and nothing is on its way
NoToken == ""

OtherEndpoints ==
    {"services", "purchases", "service-orders", "users", "customers",
     "suppliers"}

\* the collections whose rows the model keeps
Collections == {"products", "sales", "transactions"}

Endpoints == Collections \cup OtherEndpoints

IdleSession == token = "t1" /\ storedToken = "t1" /\ isLoading = FALSE

IdleNetwork ==
    /\ calls = {} /\ issued = 0
    /\ held = [e \in Collections |-> 0]
    /\ settled = <<>>

NoIndex == -1

IdlePurchaseForm ==
    /\ purchaseItems = <<>> /\ editingItemIndex = NoIndex
    /\ itemProduct = NoProduct
    /\ itemQuantity = <<"1">> /\ unitCost = <<>>
    /\ itemSearchTerm = <<>> /\ itemResults = <<>>
    /\ editedPosition = NoIndex

IdleCashList == currentPage = 1 /\ statusFilter = "All" /\ typeFilter = "All"

NoCustomer == [id |-> <<>>, name |-> <<>>, cnpjCpf |-> <<>>]

\* the timer set when the screen was mounted has fired on the empty field
IdleLookup ==
    /\ lookupTimer = FALSE /\ lookups = {} /\ lookupsIssued = 0
    /\ foundCustomer = NoCustomer /\ isCustomerLoading = FALSE

IdleForms == IdlePurchaseForm /\ IdleCashList /\ IdleLookup

IdlePageState == IdleSession /\ IdleNetwork /\ IdleForms

IdleSale ==
    /\ cart = <<>> /\ searchTerm = <<>> /\ searchResults = <<>>
    /\ selectedProduct = NoProduct /\ quantity = 1
    /\ uniqueIdentifier = <<>>
    /\ customerName = <<>> /\ customerWhatsapp = <<>>
    /\ user = NoUser /\ submitted = <<>>

InitProducts ==
    /\ products = <<>> /\ ticketSales = <<>> /\ transactions = <<>>
    /\ now \in ProductsClock
    /\ IdlePages /\ IdleForm /\ IdleCall /\ IdleSale /\ IdlePageState

NextProducts ==
    \/ \E data \in NextArrays(products, CatalogSamples, MaxCatalog),
          clock \in ClockRead(ProductsClock) : FetchProducts(data, clock)
    \/ \E data \in NextArrays(ticketSales, HistorySamples, MaxHistory),
          clock \in ClockRead(ProductsClock) : FetchSales(data, clock)

SpecProducts == InitProducts /\ [][NextProducts]_vars

\* C1: the Products page gives every product the status the classifier rule
\* prescribes for (stock, unitsSold, daysElapsed): Ruptura when stock <= 0;
\* otherwise Excesso when nothing was sold; otherwise, by the days of stock
\* stock / (unitsSold / daysElapsed): Risco up to 7, Seguranca up to 30,
\* Excesso above.
C1_Classifier ==
    \A i \in DOMAIN products :
        LET stock == products[i].stock
            unitsSold == MapGetOr0(ProductSalesMap(ProductsSalesThisMonth), products[i].id)
            daysElapsed == now.d
            status == productsWithMetrics[i].status
        IN  /\ unitsSold >= 0 /\ daysElapsed >= 1
            /\ status = IF stock <= 0 THEN "Ruptura"
                        ELSE IF unitsSold = 0 THEN "Excesso"
                        ELSE IF stock * daysElapsed <= 7 * unitsSold THEN "Risco"
                        ELSE IF stock * daysElapsed <= 30 * unitsSold THEN "Seguranca"
                        ELSE "Excesso"

\* the spec's example is reached: stock 100, 50 sold in 10 days, Seguranca;
\* and so are a negative stock and both thresholds
C1_Witness ==
    /\ now.d = 10
    /\ Len(products) = 2
    /\ products[1].stock = 100 /\ products[2].stock = -1
    /\ MapGetOr0(ProductSalesMap(ProductsSalesThisMonth), "p1") = 50
    /\ productsWithMetrics[1].status = "Seguranca"
    /\ productsWithMetrics[2].status = "Ruptura"


(***************************************************************************)
(* The Dashboard: the memo of KPIs over the Layout collections, the        *)
(* selected competency, the goals and the clock.                           *)
(***************************************************************************)
Transaction(amount, type, category, status, timestamp) ==
    [amount |-> amount, type |-> type, category |-> category, status |-> status,
     timestamp |-> timestamp]

\* competency.split('-').map(Number): "" gives year 0 and no month, so that
\* every Date built from it is invalid and every comparison with it false
DashCompetencyValid == competency # NoCompetency

salesThisMonth ==
    IF ~DashCompetencyValid THEN <<>>
    ELSE LET startOfMonth == Date(competency.y, competency.m, 1)
             endOfMonth == Date(competency.y, competency.m,
                                DaysInMonth(competency.y, competency.m))
         IN  Filter(ticketSales, LAMBDA sale :
                 /\ DateKey(sale.timestamp) >= DateKey(startOfMonth)
                 /\ DateKey(sale.timestamp) <= DateKey(endOfMonth))

\* a month's transactions selected without the end-of-month test
transactionsThisMonthOpenEnded ==
    IF ~DashCompetencyValid THEN <<>>
    ELSE LET startOfMonth == Date(competency.y, competency.m, 1)
         IN  Filter(transactions, LAMBDA t :
                 DateKey(t.timestamp) >= DateKey(startOfMonth))

transactionsThisMonth ==
    IF ~DashCompetencyValid THEN <<>>
    ELSE LET startOfMonth == Date(competency.y, competency.m, 1)
             endOfMonth == Date(competency.y, competency.m,
                                DaysInMonth(competency.y, competency.m))
         IN  Filter(transactions, LAMBDA t :
                 /\ DateKey(t.timestamp) >= DateKey(startOfMonth)
                 /\ DateKey(t.timestamp) <= DateKey(endOfMonth))

isCurrentMonth ==
    DashCompetencyValid /\ now.y = competency.y /\ now.m = competency.m

daysInMonth ==
    IF DashCompetencyValid THEN I(DaysInMonth(competency.y, competency.m)) ELSE NaN

\* a forecast that extrapolates from today's day of month whatever the month
daysPassedAlwaysToday ==
    IF ~DashCompetencyValid THEN NaN
    ELSE I(IF now.d < DaysInMonth(competency.y, competency.m)
           THEN now.d ELSE DaysInMonth(competency.y, competency.m))

daysPassed ==
    IF isCurrentMonth
    THEN (IF JsGt(daysInMonth, I(now.d)) THEN I(now.d) ELSE daysInMonth)
    ELSE daysInMonth

currentRevenue == SumOver(salesThisMonth, LAMBDA sale : I(sale.total))

fixedCostCategories ==
    {"Aluguel", "Salário", "IPTU/Impostos", "Internet", "Água", "Luz", "Outros"}

fixedCosts ==
    SumOver(Filter(transactionsThisMonth, LAMBDA t :
                /\ t.type = "expense"
                /\ t.category \in fixedCostCategories
                /\ t.status = "Pago"),
            LAMBDA t : I(t.amount))

variableCostOfProductsSold ==
    SumOver(salesThisMonth, LAMBDA sale :
        SumOver(sale.items, LAMBDA saleItem :
            IF saleItem.type = "product" /\ saleItem.item.kind = "Product"
            THEN I(saleItem.item.cost * saleItem.quantity) ELSE I(0)))

variableCostOfServices ==
    SumOver(Filter(transactionsThisMonth, LAMBDA t :
                t.category = "Custo de Serviço" /\ t.status = "Pago"),
            LAMBDA t : I(t.amount))

totalVariableCosts == JsAdd(variableCostOfProductsSold, variableCostOfServices)

\* a contribution margin that divides whenever the revenue is not negative
currentAvgContributionMarginLooseGuard ==
    IF ~JsGt(I(0), currentRevenue)
    THEN JsMul(JsDiv(JsSub(currentRevenue, totalVariableCosts), currentRevenue), I(100))
    ELSE I(0)

currentAvgContributionMargin ==
    IF JsGt(currentRevenue, I(0))
    THEN JsMul(JsDiv(JsSub(currentRevenue, totalVariableCosts), currentRevenue), I(100))
    ELSE I(0)

currentNetProfit == JsSub(JsSub(currentRevenue, totalVariableCosts), fixedCosts)

predictedMarginRatio == JsDiv(I(goals.predictedAvgMargin), I(100))

\* a break-even point that divides by every margin ratio other than 0
breakEvenPointNonZeroGuard ==
    IF predictedMarginRatio # I(0) THEN JsDiv(fixedCosts, predictedMarginRatio) ELSE I(0)

breakEvenPoint ==
    IF JsGt(predictedMarginRatio, I(0)) THEN JsDiv(fixedCosts, predictedMarginRatio)
    ELSE I(0)

totalRevenueGoal == JsAdd(breakEvenPoint, I(goals.netProfit))

\* a goal progress that divides by every revenue goal other than 0
progressPercentageNonZeroGuard ==
    IF totalRevenueGoal # I(0)
    THEN JsMul(JsDiv(currentRevenue, totalRevenueGoal), I(100)) ELSE I(0)

progressPercentage ==
    IF JsGt(totalRevenueGoal, I(0))
    THEN JsMul(JsDiv(currentRevenue, totalRevenueGoal), I(100)) ELSE I(0)

monthlyForecast ==
    IF JsGt(daysPassed, I(0))
    THEN JsMul(JsDiv(currentRevenue, daysPassed), daysInMonth) ELSE I(0)

monthlyCOGS == variableCostOfProductsSold

averageInventoryValue == SumOver(products, LAMBDA p : I(p.cost * p.stock))

actualInventoryTurnover ==
    IF JsGt(averageInventoryValue, I(0))
    THEN JsDiv(monthlyCOGS, averageInventoryValue) ELSE I(0)

projectedInventoryTurnover ==
    IF JsGt(averageInventoryValue, I(0)) /\ JsGt(daysPassed, I(0))
    THEN JsMul(JsDiv(monthlyCOGS, averageInventoryValue), JsDiv(daysInMonth, daysPassed))
    ELSE I(0)

productSalesMap == ProductSalesMap(salesThisMonth)

\* an ascending sort that puts an element before the earlier ones it ties with
SortByTurnoverRatioUnstable(array) ==
    LET Insert(sorted, x) ==
            LET k == Cardinality({i \in DOMAIN sorted :
                                     JsGt(x.turnoverRatio, sorted[i].turnoverRatio)})
            IN  SubSeq(sorted, 1, k) \o <<x>> \o SubSeq(sorted, k + 1, Len(sorted))
        acc[i \in 0..Len(array)] ==
            IF i = 0 THEN <<>> ELSE Insert(acc[i - 1], array[i])
    IN  acc[Len(array)]

\* array.sort((a, b) => a.turnoverRatio - b.turnoverRatio): stable, ascending
SortByTurnoverRatio(array) ==
    LET Insert(sorted, x) ==
            LET k == Cardinality({i \in DOMAIN sorted :
                                     ~JsGt(sorted[i].turnoverRatio, x.turnoverRatio)})
            IN  SubSeq(sorted, 1, k) \o <<x>> \o SubSeq(sorted, k + 1, Len(sorted))
        acc[i \in 0..Len(array)] ==
            IF i = 0 THEN <<>> ELSE Insert(acc[i - 1], array[i])
    IN  acc[Len(array)]

\* a ranking that also lists the products out of stock
top10LowestTurnoverProductsAnyStock ==
    LET mapped == [i \in DOMAIN products |->
                     [id |-> products[i].id,
                      quantitySold |-> MapGetOr0(productSalesMap, products[i].id),
                      currentStock |-> products[i].stock,
                      turnoverRatio |-> JsDiv(I(MapGetOr0(productSalesMap, products[i].id)),
                                              I(products[i].stock))]]
        sorted == SortByTurnoverRatio(mapped)
    IN  SubSeq(sorted, 1, IF Len(sorted) < 10 THEN Len(sorted) ELSE 10)

TopLowestTurnover == 10

top10LowestTurnoverProducts ==
    LET stocked == Filter(products, LAMBDA p : p.stock > 0)
        mapped == [i \in DOMAIN stocked |->
                     [id |-> stocked[i].id,
                      quantitySold |-> MapGetOr0(productSalesMap, stocked[i].id),
                      currentStock |-> stocked[i].stock,
                      turnoverRatio |-> JsDiv(I(MapGetOr0(productSalesMap, stocked[i].id)),
                                              I(stocked[i].stock))]]
        sorted == SortByTurnoverRatio(mapped)
    IN  SubSeq(sorted, 1, IF Len(sorted) < TopLowestTurnover
                          THEN Len(sorted) ELSE TopLowestTurnover)

(***************************************************************************)
(* Dashboard handlers.  Each changes a dependency of the memo, which is    *)
(* recomputed with a fresh reading of the clock.                           *)
(***************************************************************************)
handleCompetencyChange(month, clock) ==
    /\ competency' = month
    /\ now' = clock
    /\ UNCHANGED <<products, ticketSales, transactions, goals, cashCompetency,
                   value, edits, fn, arg, outcome>>
    /\ UNCHANGED saleScreen
    /\ UNCHANGED pageState

\* GoalsModal.handleSubmit -> onSave(goals): the goals typed into the form
SaveGoals(newGoals, clock) ==
    /\ goals' = newGoals
    /\ now' = clock
    /\ UNCHANGED <<products, ticketSales, transactions, competency, cashCompetency,
                   value, edits, fn, arg, outcome>>
    /\ UNCHANGED saleScreen
    /\ UNCHANGED pageState

MaxKpiProducts == 1

MaxKpiSales == 2

MaxKpiTransactions == 2

KpiProductSamples == {Product("p1", 2, 5), Product("p2", 3, 0)}

KpiSaleSamples ==
    { Sale(Date(2024, 2, 5), 500, <<ProductItem("p1", 2, 3)>>),
      Sale(Date(2024, 1, 20), 300, <<ProductItem("p1", 2, 1), ServiceItem("s1", 1)>>) }

KpiTransactionSamples ==
    { Transaction(1000, "expense", "Aluguel", "Pago", Date(2024, 2, 3)),
      Transaction(200, "expense", "Custo de Serviço", "Pago", Date(2024, 2, 7)) }

\* what parseFloat(value) || 0 can leave in the goals form
GoalSamples ==
    { [predictedAvgMargin |-> 40, netProfit |-> -2500],
      [predictedAvgMargin |-> 20, netProfit |-> -2500],
      [predictedAvgMargin |-> 0, netProfit |-> -2500],
      [predictedAvgMargin |-> 0, netProfit |-> 0],
      [predictedAvgMargin |-> -20, netProfit |-> 5000] }

KpiMonths == {[y |-> 2024, m |-> 1], [y |-> 2024, m |-> 2], NoCompetency}

KpiClock == {Date(2024, 2, 10), Date(2024, 3, 1)}

\* getCurrentCompetency()
CurrentCompetency == [y |-> now.y, m |-> now.m]

InitKpi ==
    /\ products = <<>> /\ ticketSales = <<>> /\ transactions = <<>>
    /\ now \in KpiClock
    /\ competency = CurrentCompetency
    /\ goals = DefaultGoals
    /\ cashCompetency = NoCompetency
    /\ IdleForm /\ IdleCall /\ IdleSale /\ IdlePageState

NextKpi ==
    \/ \E data \in NextArrays(products, KpiProductSamples, MaxKpiProducts),
          clock \in ClockRead(KpiClock) : FetchProducts(data, clock)
    \/ \E data \in NextArrays(ticketSales, KpiSaleSamples, MaxKpiSales),
          clock \in ClockRead(KpiClock) : FetchSales(data, clock)
    \/ \E data \in NextArrays(transactions, KpiTransactionSamples, MaxKpiTransactions),
          clock \in ClockRead(KpiClock) : FetchTransactions(data, clock)
    \/ \E month \in KpiMonths, clock \in ClockRead(KpiClock) :
          handleCompetencyChange(month, clock)
    \/ \E newGoals \in GoalSamples, clock \in ClockRead(KpiClock) :
          SaveGoals(newGoals, clock)

SpecKpi == InitKpi /\ [][NextKpi]_vars

\* C2: every ratio of the KPI block is 0 when its denominator is 0, and every
\* ratio is a finite number whatever the collections, goals and month are.
C2_RatiosTotal ==
    /\ currentRevenue = I(0) => currentAvgContributionMargin = I(0)
    /\ predictedMarginRatio = I(0) => breakEvenPoint = I(0)
    /\ totalRevenueGoal = I(0) => progressPercentage = I(0)
    /\ (daysPassed = I(0) \/ ~IsFinite(daysPassed)) => monthlyForecast = I(0)
    /\ averageInventoryValue = I(0) =>
          actualInventoryTurnover = I(0) /\ projectedInventoryTurnover = I(0)
    /\ \A r \in {currentAvgContributionMargin, breakEvenPoint, totalRevenueGoal,
                 progressPercentage, monthlyForecast, actualInventoryTurnover,
                 projectedInventoryTurnover} : IsFinite(r)
    /\ \A i \in DOMAIN top10LowestTurnoverProducts :
          IsFinite(top10LowestTurnoverProducts[i].turnoverRatio)

\* all denominators are 0 at once, with something paid to divide
C2_Witness ==
    /\ currentRevenue = I(0)
    /\ goals.predictedAvgMargin = 0 /\ totalRevenueGoal = I(0)
    /\ averageInventoryValue = I(0) /\ Len(products) > 0
    /\ JsGt(fixedCosts, I(0)) /\ JsGt(totalVariableCosts, I(0))


\* C7 as claimed: the break-even revenue is fixedCosts / (margin goal / 100)
\* for every margin goal other than 0, and 0 for the margin goal 0.
C7_AsClaimed ==
    breakEvenPoint =
        IF goals.predictedAvgMargin # 0
        THEN JsDiv(fixedCosts, JsDiv(I(goals.predictedAvgMargin), I(100)))
        ELSE I(0)

\* C7 amended: the break-even revenue is fixedCosts / (margin goal / 100) for
\* every margin goal above 0, and 0 for every margin goal that is 0 or negative.
C7_BreakEven ==
    IF goals.predictedAvgMargin > 0
    THEN JsMul(breakEvenPoint, I(goals.predictedAvgMargin)) = JsMul(fixedCosts, I(100))
    ELSE breakEvenPoint = I(0)

\* the spec's example: fixed costs 1000 and a margin goal of 40 give 2500
C7_Witness ==
    /\ fixedCosts = I(1000)
    /\ goals.predictedAvgMargin = 40
    /\ breakEvenPoint = I(2500)

\* C8 as claimed: the goal progress is currentRevenue / totalRevenueGoal * 100
\* for every totalRevenueGoal other than 0, and 0 when totalRevenueGoal is 0,
\* with totalRevenueGoal = breakEvenPoint + goals.netProfit.
C8_AsClaimed ==
    /\ totalRevenueGoal = JsAdd(breakEvenPoint, I(goals.netProfit))
    /\ progressPercentage =
           IF totalRevenueGoal # I(0)
           THEN JsMul(JsDiv(currentRevenue, totalRevenueGoal), I(100))
           ELSE I(0)

\* C8 amended: the goal progress is currentRevenue / totalRevenueGoal * 100
\* for every totalRevenueGoal above 0, and 0 when totalRevenueGoal is 0 or
\* negative, with totalRevenueGoal = breakEvenPoint + goals.netProfit.
C8_GoalProgress ==
    /\ totalRevenueGoal = JsAdd(breakEvenPoint, I(goals.netProfit))
    /\ IF JsGt(totalRevenueGoal, I(0))
       THEN JsMul(progressPercentage, totalRevenueGoal) = JsMul(currentRevenue, I(100))
       ELSE progressPercentage = I(0)

\* a negative net-profit goal under a positive revenue goal: 500 of 2500 is 20%
C8_Witness ==
    /\ goals.netProfit < 0
    /\ totalRevenueGoal = I(2500)
    /\ currentRevenue = I(500)
    /\ progressPercentage = I(20)

DigitChars == <<"0", "1", "2", "3", "4", "5", "6", "7", "8", "9">>

IsDigit(c) == \E i \in DOMAIN DigitChars : DigitChars[i] = c

\* parseInt of a one-digit string
DigitVal(c) == (CHOOSE i \in DOMAIN DigitChars : DigitChars[i] = c) - 1

AllDigits(str) == \A i \in DOMAIN str : IsDigit(str[i])

\* str.replace(/\D/g, '')
StripNonDigits(str) == SelectSeq(str, IsDigit)

\* /^(\d)\1{n}$/.test(str): a digit followed by n copies of itself
IsRepeatedDigit(str, n) ==
    /\ Len(str) = n + 1
    /\ IsDigit(str[1])
    /\ \A i \in DOMAIN str : str[i] = str[1]

\* str.replace(/(\d{k})(\d)/, '$1' + sep + '$2'): the separator goes after the
\* leftmost run of k digits that another digit follows
MaskAfterRun(str, k, sep) ==
    LET starts == {p \in 1..(Len(str) - k) : AllDigits(SubSeq(str, p, p + k))}
    IN  IF starts = {} THEN str
        ELSE LET p == CHOOSE q \in starts : \A r \in starts : q <= r
             IN  SubSeq(str, 1, p + k - 1) \o <<sep>> \o SubSeq(str, p + k, Len(str))

\* str.replace(/(\d{k})(\d{1,2})$/, '$1' + sep + '$2'): k digits and then one
\* or two digits that end the string
MaskBeforeTail(str, k, sep) ==
    LET starts == {p \in {Len(str) - k - 1, Len(str) - k} :
                      p >= 1 /\ AllDigits(SubSeq(str, p, Len(str)))}
    IN  IF starts = {} THEN str
        ELSE LET p == CHOOSE q \in starts : \A r \in starts : q <= r
             IN  SubSeq(str, 1, p + k - 1) \o <<sep>> \o SubSeq(str, p + k, Len(str))

\* str.substring(0, n)
Substring0(str, n) == SubSeq(str, 1, IF Len(str) < n THEN Len(str) ELSE n)

(***************************************************************************)
(* Tax ids: formatRegister, validateRegister, validateCPF, validateCNPJ.   *)
(***************************************************************************)
\* a mask that keeps 13 digits of a corporate id
formatRegisterShortCut(val) ==
    IF val = <<>> THEN <<>>
    ELSE LET cleanValue == StripNonDigits(val)
         IN  IF Len(cleanValue) <= 11
             THEN MaskBeforeTail(MaskAfterRun(MaskAfterRun(cleanValue, 3, "."), 3, "."),
                                 3, "-")
             ELSE MaskBeforeTail(
                      MaskAfterRun(
                          MaskAfterRun(
                              MaskAfterRun(Substring0(cleanValue, 13), 2, "."), 3, "."),
                          3, "/"),
                      4, "-")

formatRegister(val) ==
    IF val = <<>> THEN <<>>
    ELSE LET cleanValue == StripNonDigits(val)
         IN  IF Len(cleanValue) <= 11
             THEN MaskBeforeTail(MaskAfterRun(MaskAfterRun(cleanValue, 3, "."), 3, "."),
                                 3, "-")
             ELSE MaskBeforeTail(
                      MaskAfterRun(
                          MaskAfterRun(
                              MaskAfterRun(Substring0(cleanValue, 14), 2, "."), 3, "."),
                          3, "/"),
                      4, "-")

\* the loop "for i = 1..last: sum += parseInt(cpf.substring(i - 1, i)) * (top - i)"
CpfSum(cpf, last, top) ==
    LET sum[i \in 0..last] ==
            IF i = 0 THEN 0 ELSE sum[i - 1] + DigitVal(cpf[i]) * (top - i)
    IN  sum[last]

CpfRemainder(sum) ==
    LET remainder == (sum * 10) % 11
    IN  IF remainder = 10 \/ remainder = 11 THEN 0 ELSE remainder

\* a CPF check without the test for eleven equal digits
validateCPFChecksumOnly(raw) ==
    LET cpf == StripNonDigits(raw)
    IN  IF Len(cpf) # 11 THEN FALSE
        ELSE IF CpfRemainder(CpfSum(cpf, 9, 11)) # DigitVal(cpf[10]) THEN FALSE
        ELSE IF CpfRemainder(CpfSum(cpf, 10, 12)) # DigitVal(cpf[11]) THEN FALSE
        ELSE TRUE

validateCPF(raw) ==
    LET cpf == StripNonDigits(raw)
    IN  IF Len(cpf) # 11 \/ IsRepeatedDigit(cpf, 10) THEN FALSE
        ELSE IF CpfRemainder(CpfSum(cpf, 9, 11)) # DigitVal(cpf[10]) THEN FALSE
        ELSE IF CpfRemainder(CpfSum(cpf, 10, 12)) # DigitVal(cpf[11]) THEN FALSE
        ELSE TRUE

\* the loop "pos = size - 7; for i = size..1: sum += numbers.charAt(size - i) *
\* pos--; if (pos < 2) pos = 9" as the pair [sum, pos] after each round
CnpjSum(numbers, size) ==
    LET loop[j \in 0..size] ==
            IF j = 0 THEN [sum |-> 0, pos |-> size - 7]
            ELSE LET before == loop[j - 1]
                     pos == before.pos - 1
                 IN  [sum |-> before.sum + DigitVal(numbers[j]) * before.pos,
                      pos |-> IF pos < 2 THEN 9 ELSE pos]
    IN  loop[size].sum

CnpjResult(sum) == IF sum % 11 < 2 THEN 0 ELSE 11 - (sum % 11)

\* a CNPJ check that stops after the first check digit
validateCNPJFirstDigitOnly(raw) ==
    LET cnpj == StripNonDigits(raw)
    IN  IF Len(cnpj) # 14 \/ IsRepeatedDigit(cnpj, 13) THEN FALSE
        ELSE CnpjResult(CnpjSum(SubSeq(cnpj, 1, 12), 12)) = DigitVal(cnpj[13])

validateCNPJ(raw) ==
    LET cnpj == StripNonDigits(raw)
    IN  IF Len(cnpj) # 14 \/ IsRepeatedDigit(cnpj, 13) THEN FALSE
        ELSE LET size == Len(cnpj) - 2
                 digits == SubSeq(cnpj, size + 1, Len(cnpj))
             IN  IF CnpjResult(CnpjSum(SubSeq(cnpj, 1, size), size)) # DigitVal(digits[1])
                 THEN FALSE
                 ELSE IF CnpjResult(CnpjSum(SubSeq(cnpj, 1, size + 1), size + 1))
                            # DigitVal(digits[2])
                 THEN FALSE
                 ELSE TRUE

\* a validateRegister that reads the first 14 digits of a longer text, as the
\* mask does
validateRegisterTruncating(val) ==
    LET cleanValue == Substring0(StripNonDigits(val), 14)
    IN  IF Len(cleanValue) = 0 THEN TRUE
        ELSE IF Len(cleanValue) = 11 THEN validateCPF(cleanValue)
        ELSE IF Len(cleanValue) = 14 THEN validateCNPJ(cleanValue)
        ELSE FALSE

validateRegister(val) ==
    LET cleanValue == StripNonDigits(val)
    IN  IF Len(cleanValue) = 0 THEN TRUE
        ELSE IF Len(cleanValue) = 11 THEN validateCPF(cleanValue)
        ELSE IF Len(cleanValue) = 14 THEN validateCNPJ(cleanValue)
        ELSE FALSE

(***************************************************************************)
(* A tax-id field: a text is put in, single digits are overtyped, and the  *)
(* onChange handler masks the text.                                        *)
(***************************************************************************)
MaxEdits == 1

CpfExample == <<"5", "2", "9", "9", "8", "2", "2", "4", "7", "2", "5">>

CpfRepeated == <<"1", "1", "1", "1", "1", "1", "1", "1", "1", "1", "1">>

CpfShort == <<"1", "2", "3", "4", "5", "6", "7", "8", "9">>

CpfCheckZero == <<"1", "1", "1", "4", "4", "4", "8", "4", "6", "0", "0">>

CnpjExample == <<"1", "1", "2", "2", "2", "3", "3", "3", "0", "0", "0", "1", "8", "1">>

CnpjOther == <<"1", "1", "2", "2", "2", "3", "3", "3", "0", "0", "2", "8", "0", "0">>

CnpjShort == <<"1", "1", "2", "2", "2", "3", "3", "3", "0", "0", "0", "1">>

CnpjLong == <<"1", "1", "2", "2", "2", "3", "3", "3", "0", "0", "0", "1", "8", "1", "9">>

TaxIdSamples ==
    {<<>>, CpfExample, CpfRepeated, CpfShort, CpfCheckZero, CnpjExample, CnpjOther,
     CnpjShort, CnpjLong}

Overtype(i, c) ==
    /\ edits < MaxEdits
    /\ i \in DOMAIN value /\ IsDigit(value[i]) /\ value[i] # c
    /\ value' = [value EXCEPT ![i] = c]
    /\ edits' = edits + 1
    /\ UNCHANGED <<products, ticketSales, transactions, now, competency, goals,
                   cashCompetency, fn, arg, outcome>>
    /\ UNCHANGED saleScreen
    /\ UNCHANGED pageState

\* onChange={e => setCustomerCnpjCpf(formatRegister(e.target.value))}
handleRegisterChange ==
    /\ value' = formatRegister(value)
    /\ UNCHANGED <<products, ticketSales, transactions, now, competency, goals,
                   cashCompetency, edits, fn, arg, outcome>>
    /\ UNCHANGED saleScreen
    /\ UNCHANGED pageState

InitTaxId ==
    /\ value \in TaxIdSamples
    /\ edits = 0
    /\ IdleCollections /\ now = Date(2024, 2, 10) /\ IdlePages /\ IdleCall /\ IdleSale /\ IdlePageState

NextTaxId ==
    \/ \E i \in 1..18, j \in DOMAIN DigitChars : Overtype(i, DigitChars[j])
    \/ handleRegisterChange

SpecTaxId == InitTaxId /\ [][NextTaxId]_vars


\* the digits of a numeric string as numbers
DigitsOf(str) == [i \in DOMAIN str |-> DigitVal(str[i])]

\* the sum of d[i] * w[i] over the indices in idx
RECURSIVE WeightedSum(_, _, _)
WeightedSum(d, w, idx) ==
    IF idx = {} THEN 0
    ELSE LET i == CHOOSE j \in idx : TRUE
         IN  d[i] * w[i] + WeightedSum(d, w, idx \ {i})

\* the CPF check digit over the first n digits: the sum of d[i] * (n + 2 - i),
\* times 10, modulo 11, with 10 read as 0
CpfCheckDigit(d, n) ==
    LET r == (WeightedSum(d, [i \in 1..n |-> n + 2 - i], 1..n) * 10) % 11
    IN  IF r = 10 THEN 0 ELSE r

\* the CNPJ check digit over the first n digits: weights 2, 3, ..., 9, 2, ...
\* from the right; 0 when the remainder modulo 11 is below 2, else 11 minus it
CnpjCheckDigit(d, n) ==
    LET r == WeightedSum(d, [i \in 1..n |-> 2 + ((n - i) % 8)], 1..n) % 11
    IN  IF r < 2 THEN 0 ELSE 11 - r

AllIdentical(str) == \A i, j \in DOMAIN str : str[i] = str[j]

\* C3: validateCPF accepts a string of 11 digits exactly when the digits are
\* not all identical and digits 10 and 11 are the check digits of the digits
\* before them; 52998224725 is valid, 11111111111 and 123456789 are not.
C3_CpfChecksum ==
    /\ (AllDigits(value) /\ Len(value) = 11) =>
          LET d == DigitsOf(value)
          IN  validateCPF(value) <=>
                 /\ ~AllIdentical(value)
                 /\ d[10] = CpfCheckDigit(d, 9)
                 /\ d[11] = CpfCheckDigit(d, 10)
    /\ (AllDigits(value) /\ Len(value) # 11) => ~validateCPF(value)
    /\ validateCPF(CpfExample)
    /\ ~validateCPF(CpfRepeated)
    /\ ~validateCPF(CpfShort)

\* a valid CPF whose two check digits both come from a remainder of 10
C3_Witness ==
    /\ value = CpfCheckZero
    /\ validateCPF(value)
    /\ CpfSum(value, 9, 11) * 10 % 11 = 10
    /\ CpfSum(value, 10, 12) * 10 % 11 = 10

\* C4: validateCNPJ accepts a string of 14 digits exactly when the digits are
\* not all identical and digits 13 and 14 are the weighted mod-11 check digits
\* of the digits before them; 11222333000181 is valid, and a valid CNPJ with
\* only its last digit changed is never valid.
C4_CnpjChecksum ==
    /\ (AllDigits(value) /\ Len(value) = 14) =>
          LET d == DigitsOf(value)
          IN  /\ validateCNPJ(value) <=>
                    /\ ~AllIdentical(value)
                    /\ d[13] = CnpjCheckDigit(d, 12)
                    /\ d[14] = CnpjCheckDigit(d, 13)
              /\ validateCNPJ(value) =>
                    \A j \in DOMAIN DigitChars :
                        DigitChars[j] # value[14] =>
                            ~validateCNPJ([value EXCEPT ![14] = DigitChars[j]])
    /\ validateCNPJ(CnpjExample)

\* the last digit of the valid example was overtyped, and the result is invalid
C4_Witness ==
    /\ edits = 1
    /\ Len(value) = 14
    /\ SubSeq(value, 1, 13) = SubSeq(CnpjExample, 1, 13)
    /\ value[14] # CnpjExample[14]
    /\ ~validateCNPJ(value)

\* C5: masking a string of 11 or 14 digits keeps its digits in their order,
\* so that validateRegister gives the masked and the bare string one verdict.
C5_MaskKeepsVerdict ==
    (AllDigits(value) /\ Len(value) \in {11, 14}) =>
        /\ StripNonDigits(formatRegister(value)) = value
        /\ validateRegister(formatRegister(value)) = validateRegister(value)

\* the field holds the masked example, 00.000.000/0000-00, and it is valid
C5_Witness ==
    /\ value = <<"1", "1", ".", "2", "2", "2", ".", "3", "3", "3", "/", "0", "0", "0", "1", "-", "8", "1">>
    /\ value = formatRegister(CnpjExample)
    /\ validateRegister(value)
    /\ formatRegister(CpfExample) = <<"5", "2", "9", ".", "9", "8", "2", ".", "2", "4", "7", "-", "2", "5">>

(***************************************************************************)
(* The Cash page: the summary of a competency month.                       *)
(***************************************************************************)
\* a filter that loses the transactions of the last day of the month
transactionsBeforeLastDay(txs, month) ==
    IF month = NoCompetency THEN <<>>
    ELSE Filter(txs, LAMBDA t : /\ t.timestamp.y = month.y
                                /\ t.timestamp.m = month.m
                                /\ t.timestamp.d < DaysInMonth(month.y, month.m))

transactionsForCompetency(txs, month) ==
    IF month = NoCompetency THEN <<>>
    ELSE Filter(txs, LAMBDA t : t.timestamp.y = month.y /\ t.timestamp.m = month.m)

\* the month's transactions whatever their status
allTransactionsThisMonth(txs, month) == transactionsForCompetency(txs, month)

paidTransactionsThisMonth(txs, month) ==
    Filter(transactionsForCompetency(txs, month), LAMBDA t : t.status = "Pago")

CashFixedCostCategories ==
    {"Aluguel", "Água", "Luz", "Internet", "IPTU/Impostos", "Salário", "Outros"}

CashSummary(txs, month) ==
    IF month = NoCompetency
    THEN [balance |-> I(0), openingBalance |-> I(0), income |-> I(0),
          serviceRevenue |-> I(0), salesRevenue |-> I(0), expense |-> I(0),
          fixedCosts |-> I(0), variableCosts |-> I(0)]
    ELSE
    LET competencyStartDate == Date(month.y, month.m, 1)
        previousTransactions ==
            Filter(txs, LAMBDA t : DateKey(t.timestamp) < DateKey(competencyStartDate))
        openingBalance ==
            SumOver(previousTransactions, LAMBDA t :
                IF t.status = "Pago"
                THEN (IF t.type = "income" THEN I(t.amount) ELSE JsNeg(I(t.amount)))
                ELSE I(0))
        paid == paidTransactionsThisMonth(txs, month)
        incomeTransactions == Filter(paid, LAMBDA t : t.type = "income")
        serviceRevenue ==
            SumOver(Filter(incomeTransactions,
                           LAMBDA t : t.category = "Faturamento de Serviço"),
                    LAMBDA t : I(t.amount))
        salesRevenue ==
            SumOver(Filter(incomeTransactions,
                           LAMBDA t : t.category = "Faturamento de Venda"),
                    LAMBDA t : I(t.amount))
        totalIncome == SumOver(incomeTransactions, LAMBDA t : I(t.amount))
        expenseTransactions == Filter(paid, LAMBDA t : t.type = "expense")
        variableCostCategories == {"Custo de Serviço", "Compra de Produto"}
        cashFixedCosts ==
            SumOver(Filter(expenseTransactions,
                           LAMBDA t : t.category \in CashFixedCostCategories),
                    LAMBDA t : I(t.amount))
        variableCosts ==
            SumOver(Filter(expenseTransactions,
                           LAMBDA t : t.category \in variableCostCategories),
                    LAMBDA t : I(t.amount))
        totalExpense == SumOver(expenseTransactions, LAMBDA t : I(t.amount))
    IN  [balance |-> JsSub(JsAdd(openingBalance, totalIncome), totalExpense),
         openingBalance |-> openingBalance,
         income |-> totalIncome,
         serviceRevenue |-> serviceRevenue,
         salesRevenue |-> salesRevenue,
         expense |-> totalExpense,
         fixedCosts |-> cashFixedCosts,
         variableCosts |-> variableCosts]

summary == CashSummary(transactions, cashCompetency)

\* Cash.handleCompetencyChange
\* Cash.handleCompetencyChange, and the effect that shows the first page when
\* the competency is another one
handleCashCompetencyChange(month) ==
    /\ cashCompetency' = month
    /\ currentPage' = IF month # cashCompetency THEN 1 ELSE currentPage
    /\ UNCHANGED <<products, ticketSales, transactions, now, competency, goals,
                   value, edits, fn, arg, outcome>>
    /\ UNCHANGED saleScreen
    /\ UNCHANGED <<session, network, purchaseForm, statusFilter, typeFilter,
                   customerLookup>>

MaxCashTransactions == 2

CashTransactionSamples ==
    { Transaction(500, "income", "Faturamento de Venda", "Pago", Date(2024, 1, 20)),
      Transaction(1000, "expense", "Aluguel", "Pago", Date(2024, 2, 3)),
      Transaction(300, "income", "Faturamento de Serviço", "Pendente", Date(2024, 2, 7)),
      Transaction(200, "expense", "Compra de Produto", "Pago", Date(2024, 3, 1)),
      Transaction(700, "income", "Faturamento de Serviço", "Pago", Date(2023, 12, 31)) }

CashAmountSamples == {50}

CashMonths ==
    {[y |-> 2023, m |-> 12], [y |-> 2024, m |-> 1], [y |-> 2024, m |-> 2],
     [y |-> 2024, m |-> 3], NoCompetency}

\* the answers to GET transactions after one transaction was added, deleted
\* or given another amount
CashResponses ==
    NextArrays(transactions, CashTransactionSamples, MaxCashTransactions)
    \cup {[transactions EXCEPT ![i].amount = a] :
             i \in DOMAIN transactions, a \in CashAmountSamples}

InitCash ==
    /\ products = <<>> /\ ticketSales = <<>> /\ transactions = <<>>
    /\ now = Date(2024, 2, 10)
    /\ cashCompetency = CurrentCompetency
    /\ competency = NoCompetency /\ goals = DefaultGoals
    /\ IdleForm /\ IdleCall /\ IdleSale /\ IdlePageState

NextCash ==
    \/ \E data \in CashResponses : FetchTransactions(data, now)
    \/ \E month \in CashMonths : handleCashCompetencyChange(month)

SpecCash == InitCash /\ [][NextCash]_vars

\* the transaction t was added to, removed from or given another amount in
\* the transactions
ChangesOnly(t) ==
    \/ transactions' = Append(transactions, t)
    \/ \E i \in DOMAIN transactions :
          /\ transactions[i] = t
          /\ \/ transactions' = RemoveAt(transactions, i)
             \/ \E a \in CashAmountSamples :
                   a # t.amount /\ transactions' = [transactions EXCEPT ![i].amount = a]

CashTransactionsSeen ==
    CashTransactionSamples \cup {transactions[i] : i \in DOMAIN transactions}

InMonth(t, month) == t.timestamp.y = month.y /\ t.timestamp.m = month.m

AfterMonth(t, month) ==
    DateKey(t.timestamp) > DateKey(Date(month.y, month.m, DaysInMonth(month.y, month.m)))

\* C10 as claimed: adding, removing or changing the amount of a transaction
\* that is pending or dated outside a month leaves that month's balance as it
\* was.
C10_AsClaimed ==
    [][\A month \in CashMonths \ {NoCompetency} :
        \A t \in CashTransactionsSeen :
            (ChangesOnly(t) /\ (t.status = "Pendente" \/ ~InMonth(t, month)))
                => CashSummary(transactions', month).balance
                       = CashSummary(transactions, month).balance]_vars

\* C10 amended: adding, removing or changing the amount of a transaction that
\* is pending or dated after a month leaves that month's balance as it was
\* (a paid transaction dated before the month is part of the balance, through
\* the opening balance).
C10_Balance ==
    [][\A month \in CashMonths \ {NoCompetency} :
        \A t \in CashTransactionsSeen :
            (ChangesOnly(t) /\ (t.status = "Pendente" \/ AfterMonth(t, month)))
                => CashSummary(transactions', month).balance
                       = CashSummary(transactions, month).balance]_vars

\* February with its paid rent, a pending income of the month and a paid
\* purchase of March: only the rent is in the balance
C10_Witness ==
    /\ cashCompetency = [y |-> 2024, m |-> 2]
    /\ Len(transactions) = 2
    /\ \E i, j \in DOMAIN transactions :
          /\ transactions[i].status = "Pago" /\ InMonth(transactions[i], cashCompetency)
          /\ transactions[j].status = "Pendente" /\ InMonth(transactions[j], cashCompetency)
    /\ summary.balance = I(-1000)
    /\ CashSummary(Append(transactions,
                          Transaction(200, "expense", "Compra de Produto", "Pago",
                                      Date(2024, 3, 1))),
                   cashCompetency).balance = summary.balance


(***************************************************************************)
(* The other formatters and validators of the validation module.           *)
(***************************************************************************)
LowerChars ==
    <<"a", "b", "c", "d", "e", "f", "g", "h", "i", "j", "k", "l", "m", "n", "o",
      "p", "q", "r", "s", "t", "u", "v", "w", "x", "y", "z", "ç", "é">>

UpperChars ==
    <<"A", "B", "C", "D", "E", "F", "G", "H", "I", "J", "K", "L", "M", "N", "O",
      "P", "Q", "R", "S", "T", "U", "V", "W", "X", "Y", "Z", "Ç", "É">>

IsLower(c) == \E i \in DOMAIN LowerChars : LowerChars[i] = c

IsUpper(c) == \E i \in DOMAIN UpperChars : UpperChars[i] = c

\* the class \s
IsSpace(c) == c \in {" ", "\t", "\n"}

toLowerCaseChar(c) ==
    IF IsUpper(c) THEN LowerChars[CHOOSE i \in DOMAIN UpperChars : UpperChars[i] = c]
    ELSE c

toUpperCaseChar(c) ==
    IF IsLower(c) THEN UpperChars[CHOOSE i \in DOMAIN LowerChars : LowerChars[i] = c]
    ELSE c

toLowerCase(str) == [i \in DOMAIN str |-> toLowerCaseChar(str[i])]

RECURSIVE trimStart(_)
trimStart(str) ==
    IF str # <<>> /\ IsSpace(Head(str)) THEN trimStart(Tail(str)) ELSE str

RECURSIVE trimEnd(_)
trimEnd(str) ==
    IF str # <<>> /\ IsSpace(str[Len(str)])
    THEN trimEnd(SubSeq(str, 1, Len(str) - 1))
    ELSE str

trim(str) == trimEnd(trimStart(str))

\* str.split(' '): the pieces between the single spaces, empty pieces kept
RECURSIVE split(_)
split(str) ==
    LET spaces == {i \in DOMAIN str : str[i] = " "}
    IN  IF spaces = {} THEN <<str>>
        ELSE LET p == CHOOSE q \in spaces : \A r \in spaces : q <= r
             IN  <<SubSeq(str, 1, p - 1)>> \o split(SubSeq(str, p + 1, Len(str)))

\* words.join(' ')
RECURSIVE join(_)
join(words) ==
    IF words = <<>> THEN <<>>
    ELSE IF Len(words) = 1 THEN words[1]
    ELSE words[1] \o <<" ">> \o join(Tail(words))

lowercasePrefixes ==
    {<<"e">>, <<"d", "a">>, <<"d", "e">>, <<"d", "i">>, <<"d", "o">>,
     <<"d", "o", "s">>, <<"d", "u">>, <<"d", "a", "s">>}

\* the own keys of specialCases and their values (the sampled words name no
\* property of Object.prototype, which the lookup of the code would also find)
specialCases ==
    {<< <<"i", "i">>, <<"I", "I">> >>,
     << <<"i", "i", "i">>, <<"I", "I", "I">> >>,
     << <<"i", "v">>, <<"I", "V">> >>,
     << <<"v">>, <<"V">> >>,
     << <<"x">>, <<"X">> >>,
     << <<"m", "c">>, <<"M", "c">> >>,
     << <<"m", "a", "c">>, <<"M", "a", "c">> >>,
     << <<"o", "'">>, <<"O", "'">> >>}

formatNameWord(word, index) ==
    LET lowerWord == toLowerCase(word)
    IN  IF \E e \in specialCases : e[1] = lowerWord
        THEN (CHOOSE e \in specialCases : e[1] = lowerWord)[2]
        ELSE IF lowerWord \in lowercasePrefixes /\ index # 0 THEN lowerWord
        ELSE IF word = <<>> THEN <<>>
        ELSE <<toUpperCaseChar(word[1])>> \o Tail(word)

\* formatName applied to a non-empty string
formatName(name) ==
    LET words == split(toLowerCase(trim(name)))
        mapped == [i \in DOMAIN words |-> formatNameWord(words[i], i - 1)]
    IN  join(SelectSeq(mapped, LAMBDA word : word # <<>>))

\* the class [a-zA-ZÀ-ÿ\s'-]
IsNameChar(c) == IsLower(c) \/ IsUpper(c) \/ IsSpace(c) \/ c \in {"'", "-"}

\* /\s{2,}/.test(str)
HasSpaceRun(str) ==
    \E i \in 1..(Len(str) - 1) : IsSpace(str[i]) /\ IsSpace(str[i + 1])

MinNameLength == 3

MaxNameLength == 100

\* validateName applied to a non-empty string
validateName(name) ==
    LET trimmed == trim(name)
    IN  /\ ~(Len(trimmed) < MinNameLength)
        /\ ~(Len(trimmed) > MaxNameLength)
        /\ trimmed # <<>> /\ \A i \in DOMAIN trimmed : IsNameChar(trimmed[i])
        /\ ~HasSpaceRun(trimmed)

\* /^[^\s@]+@[^\s@]+\.[^\s@]+$/.test(str)
emailRegex(str) ==
    /\ \A i \in DOMAIN str : ~IsSpace(str[i])
    /\ \E at \in DOMAIN str :
          /\ str[at] = "@"
          /\ \A i \in DOMAIN str : str[i] = "@" => i = at
          /\ at > 1
          /\ \E dot \in (at + 2)..(Len(str) - 1) : str[dot] = "."

\* validateEmail applied to a non-empty string
validateEmail(email) == emailRegex(trim(email))

\* a < b for strings of digits of the same length (the order of the code units)
RECURSIVE DigitsLess(_, _)
DigitsLess(a, b) ==
    IF a = <<>> \/ b = <<>> THEN a = <<>> /\ b # <<>>
    ELSE IF a[1] # b[1] THEN DigitVal(a[1]) < DigitVal(b[1])
    ELSE DigitsLess(Tail(a), Tail(b))

\* a validatePhone that lets every area code pass
validatePhoneAnyDdd(phone) ==
    LET cleanedPhone == StripNonDigits(phone)
    IN  /\ cleanedPhone # <<>>
        /\ ~(Len(cleanedPhone) < 10 \/ Len(cleanedPhone) > 11)
        /\ ~(IsRepeatedDigit(cleanedPhone, 9) \/ IsRepeatedDigit(cleanedPhone, 10))

\* validatePhone applied to a non-empty string
validatePhone(phone) ==
    LET cleanedPhone == StripNonDigits(phone)
        ddd == Substring0(cleanedPhone, 2)
    IN  /\ cleanedPhone # <<>>
        /\ ~(Len(cleanedPhone) < 10 \/ Len(cleanedPhone) > 11)
        /\ ~(DigitsLess(ddd, <<"1", "1">>) \/ DigitsLess(<<"9", "9">>, ddd))
        /\ ~(IsRepeatedDigit(cleanedPhone, 9) \/ IsRepeatedDigit(cleanedPhone, 10))

\* str.replace(/(\d{2})(\d)/, '($1) $2') on a string of digits
MaskDdd(str) ==
    IF Len(str) < 3 THEN str
    ELSE <<"(">> \o SubSeq(str, 1, 2) \o <<")", " ">> \o SubSeq(str, 3, Len(str))

\* formatPhone applied to a non-empty string
formatPhone(phone) ==
    LET cleaned == Substring0(StripNonDigits(phone), 11)
    IN  IF Len(cleaned) <= 10
        THEN MaskAfterRun(MaskDdd(cleaned), 4, "-")
        ELSE MaskAfterRun(MaskDdd(cleaned), 5, "-")


\* the decimal digits of a natural number
RECURSIVE IntDigits(_)
IntDigits(n) ==
    IF n < 10 THEN <<DigitChars[n + 1]>>
    ELSE IntDigits(n \div 10) \o <<DigitChars[(n % 10) + 1]>>

\* the digits in groups of three, from the right, with '.' between the groups
RECURSIVE GroupThousands(_)
GroupThousands(digits) ==
    IF Len(digits) <= 3 THEN digits
    ELSE GroupThousands(SubSeq(digits, 1, Len(digits) - 3))
             \o <<".">> \o SubSeq(digits, Len(digits) - 2, Len(digits))

\* Intl.NumberFormat('pt-BR', two fraction digits).format(x): the magnitude is
\* rounded to hundredths, halves away from zero; the infinity sign is written
\* by its code point
NumberFormatPtBr(x) ==
    IF IsNaN(x) THEN <<"N", "a", "N">>
    ELSE LET sign == IF x.n < 0 THEN <<"-">> ELSE <<>>
         IN  IF ~IsFinite(x) THEN sign \o <<"U+221E">>
             ELSE LET cents == (2 * 100 * Abs(x.n) + x.d) \div (2 * x.d)
                      frac == cents % 100
                  IN  sign \o GroupThousands(IntDigits(cents \div 100)) \o <<",">>
                          \o <<DigitChars[(frac \div 10) + 1], DigitChars[(frac % 10) + 1]>>

RECURSIVE DigitPrefix(_)
DigitPrefix(str) ==
    IF str # <<>> /\ IsDigit(Head(str)) THEN <<Head(str)>> \o DigitPrefix(Tail(str))
    ELSE <<>>

\* the number a string of digits writes (0 for the empty string)
RECURSIVE DigitsValue(_)
DigitsValue(digits) ==
    IF digits = <<>> THEN 0
    ELSE 10 * DigitsValue(SubSeq(digits, 1, Len(digits) - 1))
             + DigitVal(digits[Len(digits)])

RECURSIVE Pow10(_)
Pow10(k) == IF k = 0 THEN 1 ELSE 10 * Pow10(k - 1)

\* parseFloat(str) of a decimal literal without exponent: leading white space,
\* a sign, digits, a point and digits; NaN when no digit is found
parseFloat(str) ==
    LET s1 == trimStart(str)
        signed == s1 # <<>> /\ s1[1] \in {"+", "-"}
        s2 == IF signed THEN Tail(s1) ELSE s1
        whole == DigitPrefix(s2)
        s3 == SubSeq(s2, Len(whole) + 1, Len(s2))
        frac == IF s3 # <<>> /\ s3[1] = "." THEN DigitPrefix(Tail(s3)) ELSE <<>>
        magnitude == DigitsValue(whole) * Pow10(Len(frac)) + DigitsValue(frac)
    IN  IF whole = <<>> /\ frac = <<>> THEN NaN
        ELSE Num(IF signed /\ s1[1] = "-" THEN -magnitude ELSE magnitude,
                 Pow10(Len(frac)))

\* str.replace(',', '.'): the first comma only
ReplaceFirstComma(str) ==
    LET commas == {i \in DOMAIN str : str[i] = ","}
    IN  IF commas = {} THEN str
        ELSE [str EXCEPT ![CHOOSE q \in commas : \A r \in commas : q <= r] = "."]

RECURSIVE StripLeadingZeros(_)
StripLeadingZeros(digits) ==
    IF Len(digits) > 1 /\ digits[1] = "0" THEN StripLeadingZeros(Tail(digits))
    ELSE digits

\* (parseInt(digits) / 100).toFixed(2), digit by digit
HundredthsToFixed(digits) ==
    LET n == StripLeadingZeros(digits)
        padded == IF Len(n) = 1 THEN <<"0", "0">> \o n
                  ELSE IF Len(n) = 2 THEN <<"0">> \o n
                  ELSE n
    IN  SubSeq(padded, 1, Len(padded) - 2) \o <<".">>
            \o SubSeq(padded, Len(padded) - 1, Len(padded))

\* formatMoney applied to a string
formatMoney(val) ==
    LET stripped == StripNonDigits(val)
        priceValue == HundredthsToFixed(IF stripped = <<>> THEN <<"0">> ELSE stripped)
    IN  <<"R", "$", " ">>
            \o [i \in DOMAIN priceValue |->
                    IF priceValue[i] = "." THEN "," ELSE priceValue[i]]

(***************************************************************************)
(* Calls of the validation module with any JavaScript value.               *)
(***************************************************************************)
JsNull == [t |-> "null", s |-> <<>>, n |-> 0, d |-> 1]

JsString(str) == [t |-> "string", s |-> str, n |-> 0, d |-> 1]

JsNumber(x) == [t |-> "number", s |-> <<>>, n |-> x.n, d |-> x.d]

JsBoolean(b) == [t |-> "boolean", s |-> <<>>, n |-> IF b THEN 1 ELSE 0, d |-> 1]

\* !a
Falsy(a) ==
    \/ a.t \in {"undefined", "null"}
    \/ a.t = "number" /\ a.n = 0
    \/ a.t = "boolean" /\ a.n = 0
    \/ a.t = "string" /\ a.s = <<>>

Returns(v) == [kind |-> "return", v |-> v]

\* a method of String is read from a value that is no string: undefined and
\* null have no properties, a number or a boolean has no such method
ThrowsTypeError ==
    [kind |-> "throw", v |-> JsString(<<"T", "y", "p", "e", "E", "r", "r", "o", "r">>)]

formatNameCall(a) ==
    IF Falsy(a) \/ a.t # "string" THEN Returns(JsString(<<>>))
    ELSE Returns(JsString(formatName(a.s)))

validateNameCall(a) ==
    IF Falsy(a) THEN Returns(JsBoolean(FALSE))
    ELSE IF a.t # "string" THEN ThrowsTypeError
    ELSE Returns(JsBoolean(validateName(a.s)))

formatRegisterCall(a) ==
    IF Falsy(a) THEN Returns(JsString(<<>>))
    ELSE IF a.t # "string" THEN ThrowsTypeError
    ELSE Returns(JsString(formatRegister(a.s)))

validateRegisterCall(a) ==
    IF a.t # "string" THEN ThrowsTypeError
    ELSE Returns(JsBoolean(validateRegister(a.s)))

validateCPFCall(a) ==
    IF a.t # "string" THEN ThrowsTypeError
    ELSE Returns(JsBoolean(validateCPF(a.s)))

validateCNPJCall(a) ==
    IF a.t # "string" THEN ThrowsTypeError
    ELSE Returns(JsBoolean(validateCNPJ(a.s)))

validateEmailCall(a) ==
    IF Falsy(a) THEN Returns(JsBoolean(FALSE))
    ELSE IF a.t # "string" THEN ThrowsTypeError
    ELSE Returns(JsBoolean(validateEmail(a.s)))

validatePhoneCall(a) ==
    IF Falsy(a) THEN Returns(JsBoolean(TRUE))
    ELSE IF a.t # "string" THEN ThrowsTypeError
    ELSE Returns(JsBoolean(validatePhone(a.s)))

formatPhoneCall(a) ==
    IF Falsy(a) THEN Returns(JsString(<<>>))
    ELSE IF a.t # "string" THEN ThrowsTypeError
    ELSE Returns(JsString(formatPhone(a.s)))

formatCurrencyNumber(a) ==
    IF a.t \in {"undefined", "null"} \/ (a.t = "string" /\ a.s = <<>>)
    THEN Returns(JsString(<<"0", ",", "0", "0">>))
    ELSE LET numberValue ==
                 IF a.t = "string" THEN parseFloat(ReplaceFirstComma(a.s))
                 ELSE [n |-> a.n, d |-> a.d]
         IN  IF IsNaN(numberValue) THEN Returns(JsString(<<"0", ",", "0", "0">>))
             ELSE Returns(JsString(NumberFormatPtBr(numberValue)))

formatMoneyCall(a) ==
    IF a.t # "string" THEN ThrowsTypeError
    ELSE Returns(JsString(formatMoney(a.s)))

Formatters ==
    {"formatName", "formatRegister", "formatPhone", "formatCurrencyNumber", "formatMoney"}

Validators ==
    {"validateName", "validateRegister", "validateCPF", "validateCNPJ",
     "validateEmail", "validatePhone"}

Invoke(f, a) ==
    CASE f = "formatName" -> formatNameCall(a)
      [] f = "validateName" -> validateNameCall(a)
      [] f = "formatRegister" -> formatRegisterCall(a)
      [] f = "validateRegister" -> validateRegisterCall(a)
      [] f = "validateCPF" -> validateCPFCall(a)
      [] f = "validateCNPJ" -> validateCNPJCall(a)
      [] f = "validateEmail" -> validateEmailCall(a)
      [] f = "validatePhone" -> validatePhoneCall(a)
      [] f = "formatPhone" -> formatPhoneCall(a)
      [] f = "formatCurrencyNumber" -> formatCurrencyNumber(a)
      [] f = "formatMoney" -> formatMoneyCall(a)

Call(f, a) ==
    /\ fn' = f
    /\ arg' = a
    /\ outcome' = Invoke(f, a)
    /\ UNCHANGED <<products, ticketSales, transactions, now, competency, goals,
                   cashCompetency, value, edits>>
    /\ UNCHANGED saleScreen
    /\ UNCHANGED pageState

NonStringSamples ==
    {JsUndefined, JsNull, JsNumber(I(0)), JsNumber(I(5)), JsNumber(NaN),
     JsNumber(Num(1234567, 100)), JsNumber(Num(-3, 2)),
     JsBoolean(TRUE), JsBoolean(FALSE)}

NameStrings ==
    {<<>>,
     <<" ", " ">>,
     <<"a", "n", "a", " ", " ", "d", "e", " ", "s", "o", "u", "z", "a", " ">>,
     <<"M", "A", "R", "I", "A", " ", "D", "A", "S", " ", "D", "O", "R", "E", "S">>,
     <<"o", "'", " ", "n", "e", "i", "l", " ", "i", "i", "i">>,
     <<"j", "o">>,
     <<"a", "n", "a", "3">>,
     <<"j", "o", "s", "é", "-", "m", "a", "r", "i", "a", " ", "d", "'", "a", "v", "i", "l", "a">>}

EmailStrings ==
    {<<>>,
     <<" ", "a", "@", "b", ".", "c", "o", " ">>,
     <<"a", "@", "b">>,
     <<"a", " ", "b", "@", "c", ".", "d", "e">>,
     <<"a", "@", "@", "b", ".", "c", "o">>,
     <<"@", "b", ".", "c", "o">>,
     <<"a", "@", "b", ".">>,
     <<"a", "@", ".", "c", "o">>}

PhoneStrings ==
    {<<>>,
     <<"(", "1", "1", ")", " ", "9", "8", "7", "6", "5", "-", "4", "3", "2", "1">>,
     <<"1", "1", "9", "8", "7", "6", "5", "4", "3", "2">>,
     <<"0", "9", "1", "2", "3", "4", "5", "6", "7", "8">>,
     <<"1", "0", "9", "8", "7", "6", "5", "4", "3", "2">>,
     <<"1", "1", "1", "1", "1", "1", "1", "1", "1", "1">>,
     <<"1", "1", "9", "8", "7", "6", "5", "4", "3">>,
     <<"1", "1", "9", "8", "7", "6", "5", "4", "3", "2", "1", "0">>,
     <<"9", "9", "1", "2", "3", "4", "5", "6", "7", "8">>,
     <<"1", "1", "1", "1", "1", "1", "1", "1", "1", "1", "1">>,
     <<"1", "1", " ", "9", "8", "7", "6", "5", " ", "4", "3", "2", "1">>,
     <<"+", "5", "5", " ", "1", "1", " ", "8", "7", "6", "5", "-", "4", "3", "2", "1">>,
     <<"a", "b", "c">>}

AmountStrings ==
    {<<>>,
     <<"1", "2", ",", "5">>,
     <<"1", "2", "3", "4", ".", "5">>,
     <<"-", "0", ",", "0", "0", "5">>,
     <<"a", "b", "c">>,
     <<" ", "7">>,
     <<"1", ",", "2", ",", "3">>,
     <<"R", "$", " ", "0", ",", "0", "7">>}

StringSamples(f) ==
    IF f \in {"formatName", "validateName"} THEN NameStrings
    ELSE IF f = "validateEmail" THEN EmailStrings
    ELSE IF f \in {"validatePhone", "formatPhone"} THEN PhoneStrings
    ELSE IF f = "formatCurrencyNumber" THEN AmountStrings
    ELSE IF f = "formatMoney" THEN AmountStrings \cup TaxIdSamples
    ELSE TaxIdSamples \cup {<<>>, formatRegister(CpfExample), formatRegister(CnpjExample)}

ArgSamples(f) == NonStringSamples \cup {JsString(str) : str \in StringSamples(f)}

InitCall ==
    /\ IdleCollections /\ now = Date(2024, 2, 10) /\ IdlePages /\ IdleForm
    /\ IdleCall /\ IdleSale /\ IdlePageState

NextCall == \E f \in Formatters \cup Validators : \E a \in ArgSamples(f) : Call(f, a)

SpecCall == InitCall /\ [][NextCall]_vars

\* C6 as claimed: no call of a formatter or validator raises, and a call with
\* a value that is no string returns the empty string (formatters) or false
\* (validators).
C6_AsClaimed ==
    fn # "none" =>
        /\ outcome.kind = "return"
        /\ arg.t # "string" =>
               outcome.v = (IF fn \in Formatters THEN JsString(<<>>)
                            ELSE JsBoolean(FALSE))


(***************************************************************************)
(* The Dashboard: stock-level summary and rankings.                        *)
(***************************************************************************)
\* a summary that leaves products without sales out of every bucket
StockLevelBucketSoldOnly(p, soldQty, days, monthDays) ==
    IF p.stock = 0 THEN "ruptura"
    ELSE IF soldQty > 0
         THEN LET daysOfStock == JsDiv(I(p.stock), JsDiv(I(soldQty), days))
              IN  IF JsLe(daysOfStock, I(7)) THEN "risco"
                  ELSE IF JsLe(daysOfStock, I(30)) THEN "seguranca"
                  ELSE "excesso"
         ELSE "none"

\* the bucket one iteration of products.forEach increments
StockLevelBucket(p, soldQty, days, monthDays) ==
    IF p.stock = 0 THEN "ruptura"
    ELSE IF soldQty > 0
         THEN LET projectedMonthlySales == JsMul(JsDiv(I(soldQty), days), monthDays)
                  dailySales == JsDiv(projectedMonthlySales, monthDays)
                  daysOfStock == JsDiv(I(p.stock), dailySales)
              IN  IF JsLe(daysOfStock, I(7)) THEN "risco"
                  ELSE IF JsLe(daysOfStock, I(30)) THEN "seguranca"
                  ELSE "excesso"
         ELSE "excesso"

BucketOf(i) ==
    StockLevelBucket(products[i], MapGetOr0(productSalesMap, products[i].id),
                     daysPassed, daysInMonth)

stockLevelSummary ==
    [ruptura |-> Cardinality({i \in DOMAIN products : BucketOf(i) = "ruptura"}),
     risco |-> Cardinality({i \in DOMAIN products : BucketOf(i) = "risco"}),
     seguranca |-> Cardinality({i \in DOMAIN products : BucketOf(i) = "seguranca"}),
     excesso |-> Cardinality({i \in DOMAIN products : BucketOf(i) = "excesso"})]

\* products.find(p => p.id === productId)?.stock || 0
StockOfOr0(productId) ==
    LET found == {i \in DOMAIN products : products[i].id = productId}
    IN  IF found = {} THEN 0
        ELSE products[CHOOSE i \in found : \A j \in found : i <= j].stock

\* array.sort((a, b) => b.quantitySold - a.quantitySold): stable, descending
SortByQuantitySold(array) ==
    LET Insert(sorted, x) ==
            LET k == Cardinality({i \in DOMAIN sorted :
                                     sorted[i].quantitySold >= x.quantitySold})
            IN  SubSeq(sorted, 1, k) \o <<x>> \o SubSeq(sorted, k + 1, Len(sorted))
        acc[i \in 0..Len(array)] ==
            IF i = 0 THEN <<>> ELSE Insert(acc[i - 1], array[i])
    IN  acc[Len(array)]

TopSold == 10

\* a ranking that keeps the order in which the products were first sold
top10SoldProductsUnsorted ==
    LET mapped == [i \in DOMAIN productSalesMap |->
                     [id |-> productSalesMap[i].key,
                      quantitySold |-> productSalesMap[i].val,
                      currentStock |-> StockOfOr0(productSalesMap[i].key)]]
    IN  SubSeq(mapped, 1, IF Len(mapped) < TopSold THEN Len(mapped) ELSE TopSold)

top10SoldProducts ==
    LET mapped == [i \in DOMAIN productSalesMap |->
                     [id |-> productSalesMap[i].key,
                      quantitySold |-> productSalesMap[i].val,
                      currentStock |-> StockOfOr0(productSalesMap[i].key)]]
        sorted == SortByQuantitySold(mapped)
    IN  SubSeq(sorted, 1, IF Len(sorted) < TopSold THEN Len(sorted) ELSE TopSold)

\* the Map of revenue per calendar day of the sales (the day in the time zone
\* of Sao Paulo, taken to be the local one)
RECURSIVE AddSales(_, _)
AddSales(map, sales) ==
    IF sales = <<>> THEN map
    ELSE AddSales(MapSet(map, Head(sales).timestamp,
                         MapGetOr0(map, Head(sales).timestamp) + Head(sales).total),
                  Tail(sales))

salesByDay == AddSales(<<>>, salesThisMonth)

\* array.sort((a, b) => b.total - a.total): stable, descending
SortByTotal(array) ==
    LET Insert(sorted, x) ==
            LET k == Cardinality({i \in DOMAIN sorted : sorted[i].total >= x.total})
            IN  SubSeq(sorted, 1, k) \o <<x>> \o SubSeq(sorted, k + 1, Len(sorted))
        acc[i \in 0..Len(array)] ==
            IF i = 0 THEN <<>> ELSE Insert(acc[i - 1], array[i])
    IN  acc[Len(array)]

TopPeaks == 5

top5SalesPeaks ==
    LET mapped == [i \in DOMAIN salesByDay |->
                     [date |-> salesByDay[i].key, total |-> salesByDay[i].val]]
        sorted == SortByTotal(mapped)
    IN  SubSeq(sorted, 1, IF Len(sorted) < TopPeaks THEN Len(sorted) ELSE TopPeaks)


MaxRankProducts == 2

MaxRankSales == 2

RankProductSamples ==
    {Product("p1", 2, stock) : stock \in {-1, 0, 3, 30}}
    \cup {Product("p2", 3, 10), Product("p3", 5, 6)}

\* a catalogue of twelve products, eleven of them in stock
BigCatalog ==
    <<Product("p1", 2, 3), Product("p2", 3, 10), Product("p3", 5, 6),
      Product("p4", 2, 20), Product("p5", 2, 5), Product("p6", 2, 8),
      Product("p7", 2, 9), Product("p8", 2, 12), Product("p9", 2, 7),
      Product("p10", 2, 4), Product("p11", 2, 2), Product("p12", 2, 0)>>

\* a sale of eleven different products
BigSale ==
    Sale(Date(2024, 2, 7), 1000,
         <<ProductItem("p1", 2, 10), ProductItem("p2", 3, 4), ProductItem("p3", 5, 1),
           ProductItem("p4", 2, 8), ProductItem("p5", 2, 5), ProductItem("p6", 2, 2),
           ProductItem("p7", 2, 9), ProductItem("p8", 2, 3), ProductItem("p9", 2, 7),
           ProductItem("p10", 2, 6), ProductItem("p11", 2, 1)>>)

RankSaleSamples ==
    { Sale(Date(2024, 2, 5), 500, <<ProductItem("p1", 2, 10)>>),
      Sale(Date(2024, 2, 5), 260, <<ProductItem("p2", 3, 4), ServiceItem("s1", 1)>>),
      Sale(Date(2024, 1, 20), 300, <<ProductItem("p1", 2, 3), ProductItem("p99", 4, 1)>>),
      BigSale }

\* product ids are unique in a catalogue
UniqueIds(catalog) ==
    \A i, j \in DOMAIN catalog : catalog[i].id = catalog[j].id => i = j

RankCatalogResponses ==
    {data \in NextArrays(products, RankProductSamples, MaxRankProducts) :
        /\ UniqueIds(data)
        /\ Len(data) < Len(products) => Len(products) <= MaxRankProducts + 1}
    \cup {BigCatalog}

\* a ticket is listed once in the sales
RankSaleResponses ==
    {data \in NextArrays(ticketSales, RankSaleSamples, MaxRankSales) :
        \A i, j \in DOMAIN data : data[i] = data[j] => i = j}

InitRanking ==
    /\ products = <<>> /\ ticketSales = <<>> /\ transactions = <<>>
    /\ now \in KpiClock
    /\ competency = CurrentCompetency
    /\ goals = DefaultGoals
    /\ cashCompetency = NoCompetency
    /\ IdleForm /\ IdleCall /\ IdleSale /\ IdlePageState

NextRanking ==
    \/ \E data \in RankCatalogResponses, clock \in ClockRead(KpiClock) :
          FetchProducts(data, clock)
    \/ \E data \in RankSaleResponses, clock \in ClockRead(KpiClock) :
          FetchSales(data, clock)
    \/ \E month \in KpiMonths, clock \in ClockRead(KpiClock) :
          handleCompetencyChange(month, clock)

SpecRanking == InitRanking /\ [][NextRanking]_vars

\* the status of the Products page under the name of its bucket
BucketName(status) ==
    CASE status = "Ruptura" -> "ruptura"
      [] status = "Risco" -> "risco"
      [] status = "Seguranca" -> "seguranca"
      [] status = "Excesso" -> "excesso"

\* C11 as claimed: for every product, units sold and days elapsed, the bucket
\* the Dashboard counts the product in is the status the Products page gives
\* it for the same three numbers, and a product with stock <= 0 is out of
\* stock in both.
C11_AsClaimed ==
    DashCompetencyValid =>
        \A i \in DOMAIN products :
            LET soldQty == MapGetOr0(productSalesMap, products[i].id)
            IN  /\ BucketOf(i)
                       = BucketName(ProductMetrics(products[i], soldQty, daysPassed.n).status)
                /\ products[i].stock <= 0 => BucketOf(i) = "ruptura"

\* C12: the four counts of the stock-level summary add up to the number of
\* products.
C12_Partition ==
    stockLevelSummary.ruptura + stockLevelSummary.risco
        + stockLevelSummary.seguranca + stockLevelSummary.excesso = Len(products)

\* twelve products that fill all four buckets
C12_Witness ==
    /\ Len(products) = 12
    /\ stockLevelSummary.ruptura > 0 /\ stockLevelSummary.risco > 0
    /\ stockLevelSummary.seguranca > 0 /\ stockLevelSummary.excesso > 0


\* the catalogue positions of the products in stock
Stocked == {i \in DOMAIN products : products[i].stock > 0}

Min(a, b) == IF a < b THEN a ELSE b

\* C13 as claimed: with no sales at all, the three rankings are empty.
C13_AsClaimed ==
    ticketSales = <<>> =>
        /\ top10SoldProducts = <<>>
        /\ top10LowestTurnoverProducts = <<>>
        /\ top5SalesPeaks = <<>>

\* C13 amended: with no sales at all, the best sellers and the sales peaks are
\* empty, and the lowest-turnover ranking lists the first ten products in
\* stock, in catalogue order, each with nothing sold and a turnover ratio of 0.
C13_EmptySales ==
    ticketSales = <<>> =>
        /\ top10SoldProducts = <<>>
        /\ top5SalesPeaks = <<>>
        /\ Len(top10LowestTurnoverProducts) = Min(Cardinality(Stocked), 10)
        /\ \A k \in DOMAIN top10LowestTurnoverProducts :
              LET row == top10LowestTurnoverProducts[k]
                  i == CHOOSE j \in Stocked : Cardinality({h \in Stocked : h <= j}) = k
              IN  /\ row.id = products[i].id
                  /\ row.currentStock = products[i].stock
                  /\ row.quantitySold = 0
                  /\ row.turnoverRatio = I(0)

\* no sales, and a catalogue with more than ten products in stock
C13_Witness ==
    /\ ticketSales = <<>>
    /\ Cardinality(Stocked) > 10
    /\ Cardinality(Stocked) < Len(products)
    /\ Len(top10LowestTurnoverProducts) = 10

\* the product-type items of the sales of the selected month
SoldItems == SelectSeq(ItemsOf(salesThisMonth), LAMBDA item : item.type = "product")

SoldIds == {SoldItems[i].item.id : i \in DOMAIN SoldItems}

RECURSIVE SumQuantities(_, _)
SumQuantities(items, id) ==
    IF items = <<>> THEN 0
    ELSE (IF Head(items).item.id = id THEN Head(items).quantity ELSE 0)
             + SumQuantities(Tail(items), id)

QuantitySold(id) == SumQuantities(SoldItems, id)

\* C14: the best sellers have one entry per product id sold in the month, at
\* most ten, each with the summed quantity and the catalogue stock (0 without
\* a catalogue entry), in non-increasing quantity, and no product left out
\* sold more than one that is listed.
C14_BestSellers ==
    LET top == top10SoldProducts
        listed == {top[k].id : k \in DOMAIN top}
    IN  /\ Len(top) = Min(Cardinality(SoldIds), 10)
        /\ listed \subseteq SoldIds
        /\ Cardinality(listed) = Len(top)
        /\ \A k \in DOMAIN top :
              /\ top[k].quantitySold = QuantitySold(top[k].id)
              /\ \/ \E i \in DOMAIN products :
                       products[i].id = top[k].id /\ top[k].currentStock = products[i].stock
                 \/ /\ \A i \in DOMAIN products : products[i].id # top[k].id
                    /\ top[k].currentStock = 0
        /\ \A k, l \in DOMAIN top : k < l => top[k].quantitySold >= top[l].quantitySold
        /\ \A id \in SoldIds \ listed :
              \A k \in DOMAIN top : QuantitySold(id) <= top[k].quantitySold

\* eleven products sold: one is left out, and a listed product has left the
\* catalogue
C14_Witness ==
    /\ Cardinality(SoldIds) > 10
    /\ Len(top10SoldProducts) = 10
    /\ \E k \in DOMAIN top10SoldProducts :
          /\ top10SoldProducts[k].currentStock = 0
          /\ \A i \in DOMAIN products : products[i].id # top10SoldProducts[k].id
    /\ \E k \in DOMAIN top10SoldProducts :
          k > 1 /\ top10SoldProducts[k].quantitySold > 1
                /\ top10SoldProducts[k].currentStock > 0

\* the catalogue position of a row of the lowest-turnover ranking
PositionOf(row) == CHOOSE i \in DOMAIN products : products[i].id = row.id

\* sold(i) / stock(i) < sold(j) / stock(j), for products in stock
RatioLess(i, j) ==
    QuantitySold(products[i].id) * products[j].stock
        < QuantitySold(products[j].id) * products[i].stock

RatioEqual(i, j) ==
    QuantitySold(products[i].id) * products[j].stock
        = QuantitySold(products[j].id) * products[i].stock

\* i comes before j in the ranking: a lower ratio, or the same ratio and an
\* earlier place in the catalogue
RanksBefore(i, j) == RatioLess(i, j) \/ (RatioEqual(i, j) /\ i < j)

\* C15: the lowest-turnover ranking lists only products in stock, with
\* turnoverRatio = units sold in the month / stock, in non-decreasing ratio,
\* ties in catalogue order, and is cut to the first ten.
C15_LowestTurnover ==
    LET low == top10LowestTurnoverProducts
        listed == {PositionOf(low[k]) : k \in DOMAIN low}
    IN  /\ Len(low) = Min(Cardinality(Stocked), 10)
        /\ listed \subseteq Stocked
        /\ \A k \in DOMAIN low :
              LET i == PositionOf(low[k])
              IN  /\ low[k].currentStock = products[i].stock
                  /\ low[k].quantitySold = QuantitySold(low[k].id)
                  /\ low[k].turnoverRatio
                         = Num(QuantitySold(low[k].id), products[i].stock)
        /\ \A k, l \in DOMAIN low :
              k < l => RanksBefore(PositionOf(low[k]), PositionOf(low[l]))
        /\ \A i \in Stocked \ listed :
              \A k \in DOMAIN low : RanksBefore(PositionOf(low[k]), i)

\* eleven products in stock and sold: the ranking is cut, and two listed
\* products tie
C15_Witness ==
    /\ Cardinality(Stocked) > 10
    /\ Len(top10LowestTurnoverProducts) = 10
    /\ \E k, l \in DOMAIN top10LowestTurnoverProducts :
          /\ k < l
          /\ top10LowestTurnoverProducts[k].quantitySold > 0
          /\ top10LowestTurnoverProducts[k].quantitySold
                 # top10LowestTurnoverProducts[l].quantitySold
          /\ top10LowestTurnoverProducts[k].turnoverRatio
                 = top10LowestTurnoverProducts[l].turnoverRatio


(***************************************************************************)
(* The costs of a month as the Dashboard and the Cash page compute them.   *)
(***************************************************************************)
MaxCostTransactions == 2

CostTransactionSamples ==
    { Transaction(1000, "expense", "Aluguel", "Pago", Date(2024, 2, 1)),
      Transaction(400, "expense", "Aluguel", "Pendente", Date(2024, 2, 5)),
      Transaction(70, "income", "Outros", "Pago", Date(2024, 2, 6)),
      Transaction(200, "expense", "Custo de Serviço", "Pago", Date(2024, 2, 7)),
      Transaction(50, "income", "Custo de Serviço", "Pago", Date(2024, 2, 8)),
      Transaction(300, "expense", "Salário", "Pago", Date(2024, 2, 29)),
      Transaction(310, "expense", "Salário", "Pago", Date(2024, 3, 1)),
      Transaction(90, "expense", "Custo de Serviço", "Pendente", Date(2024, 1, 31)) }

InitCosts ==
    /\ products = <<>> /\ ticketSales = <<>> /\ transactions = <<>>
    /\ now = Date(2024, 2, 10)
    /\ competency = CurrentCompetency
    /\ cashCompetency = CurrentCompetency
    /\ goals = DefaultGoals
    /\ IdleForm /\ IdleCall /\ IdleSale /\ IdlePageState

NextCosts ==
    \/ \E data \in NextArrays(transactions, CostTransactionSamples, MaxCostTransactions) :
          FetchTransactions(data, now)
    \/ \E month \in CashMonths : handleCompetencyChange(month, now)
    \/ \E month \in CashMonths : handleCashCompetencyChange(month)

SpecCosts == InitCosts /\ [][NextCosts]_vars

\* the sum of the amounts of the transactions of a month that pass a test
SumAmounts(txs, month, Counts(_)) ==
    LET partial[i \in 0..Len(txs)] ==
            IF i = 0 THEN 0
            ELSE partial[i - 1]
                     + (IF month # NoCompetency /\ InMonth(txs[i], month) /\ Counts(txs[i])
                        THEN txs[i].amount ELSE 0)
    IN  partial[Len(txs)]

IsFixedCost(t) ==
    /\ t.status = "Pago"
    /\ t.type = "expense"
    /\ t.category \in {"Aluguel", "Água", "Luz", "Internet", "IPTU/Impostos",
                       "Salário", "Outros"}

IsServiceCost(t) ==
    /\ t.status = "Pago"
    /\ t.type = "expense"
    /\ t.category = "Custo de Serviço"

\* C17 as claimed: variableCostOfServices is the sum of the paid expenses of
\* the month in the service-cost category; no pending transaction, income,
\* other category or other month contributes.
C17_AsClaimed ==
    variableCostOfServices = I(SumAmounts(transactions, competency, IsServiceCost))


\* the verdict the claim gives for a phone text
PhoneVerdict(str) ==
    \/ str = <<>>
    \/ LET digits == StripNonDigits(str)
       IN  /\ Len(digits) \in {10, 11}
           /\ 10 * DigitVal(digits[1]) + DigitVal(digits[2]) >= 11
           /\ ~AllIdentical(digits)

\* C18: validatePhone accepts the empty text, and any other text exactly when
\* it has 10 or 11 digits, an area code of at least 11 and not one digit
\* repeated throughout.
C18_Phone ==
    (fn = "validatePhone" /\ arg.t = "string") =>
        outcome = Returns(JsBoolean(PhoneVerdict(arg.s)))

\* a number of ten digits is refused for its area code 10
C18_Witness ==
    /\ fn = "validatePhone" /\ arg.t = "string"
    /\ Len(StripNonDigits(arg.s)) = 10
    /\ SubSeq(StripNonDigits(arg.s), 1, 2) = <<"1", "0">>
    /\ ~AllIdentical(StripNonDigits(arg.s))
    /\ outcome = Returns(JsBoolean(FALSE))

\* the verdict the claim gives for a tax-id text
RegisterVerdict(str) ==
    LET digits == StripNonDigits(str)
        d == DigitsOf(digits)
    IN  \/ Len(digits) = 0
        \/ /\ Len(digits) = 11
           /\ ~AllIdentical(digits)
           /\ d[10] = CpfCheckDigit(d, 9)
           /\ d[11] = CpfCheckDigit(d, 10)
        \/ /\ Len(digits) = 14
           /\ ~AllIdentical(digits)
           /\ d[13] = CnpjCheckDigit(d, 12)
           /\ d[14] = CnpjCheckDigit(d, 13)

\* C19: validateRegister accepts a text without digits, decides 11 digits by
\* the CPF check digits and 14 digits by the CNPJ check digits, and refuses
\* every other number of digits.
C19_Register == validateRegister(value) = RegisterVerdict(value)

\* fifteen digits, the last one overtyped, are refused although the first
\* fourteen are a valid CNPJ
C19_Witness ==
    /\ edits = 1
    /\ Len(StripNonDigits(value)) = 15
    /\ validateCNPJ(Substring0(StripNonDigits(value), 14))
    /\ ~validateRegister(value)

(***************************************************************************)
(* The sales screen (src/components/Sales.tsx).  A product is the object   *)
(* the products collection holds: the fields the screen reads, with no     *)
(* location.  Prices, stocks and quantities are whole numbers, on which    *)
(* JavaScript arithmetic is exact.                                         *)
(***************************************************************************)
SaleProduct(id, barcode, name, price, stock, category, unique) ==
    [id |-> id, barcode |-> barcode, name |-> name, price |-> price,
     stock |-> stock, category |-> category,
     requiresUniqueIdentifier |-> unique]

\* one line of the cart; uniqueIdentifier is <<>> where the code leaves it out
CartItem(item, qty, unitPrice, identifier) ==
    [item |-> item, quantity |-> qty, type |-> "product",
     unitPrice |-> unitPrice, uniqueIdentifier |-> identifier]

\* String.prototype.includes
includes(str, search) ==
    \E k \in 0..(Len(str) - Len(search)) :
        SubSeq(str, k + 1, k + Len(search)) = search

\* const total = cart.reduce((sum, cartItem) => sum + unitPrice * quantity, 0)
RECURSIVE CartTotal(_, _)
CartTotal(sum, items) ==
    IF items = <<>> THEN sum
    ELSE CartTotal(sum + Head(items).unitPrice * Head(items).quantity,
                   Tail(items))

total == CartTotal(0, cart)

\* the filter of handleSearchChange
MatchesSearch(p, lowerCaseValue) ==
    \/ includes(toLowerCase(p.name), lowerCaseValue)
    \/ includes(toLowerCase(p.barcode), lowerCaseValue)
    \/ includes(toLowerCase(p.category), lowerCaseValue)

handleSearchChange(text) ==
    /\ searchTerm' = text
    /\ selectedProduct' = NoProduct
    /\ uniqueIdentifier' = <<>>
    /\ searchResults' =
           IF Len(text) < 1 THEN <<>>
           ELSE LET lowerCaseValue == toLowerCase(text)
                    Matches(p) == MatchesSearch(p, lowerCaseValue)
                IN  SelectSeq(products, Matches)
    /\ UNCHANGED pageState
    /\ UNCHANGED <<products, ticketSales, transactions, now, competency, goals,
                   cashCompetency, value, edits, fn, arg, outcome>>
    /\ UNCHANGED <<cart, quantity, customerName, customerWhatsapp, user,
                   submitted>>

\* the state updates of handleSelectProduct
SelectProduct(product) ==
    /\ selectedProduct' = product
    /\ searchTerm' = product.name
    /\ searchResults' = <<>>
    /\ quantity' = 1
    /\ uniqueIdentifier' = <<>>

\* a click on one row of the list of search results
handleSelectProduct(i) ==
    /\ i \in DOMAIN searchResults
    /\ SelectProduct(searchResults[i])
    /\ UNCHANGED pageState
    /\ UNCHANGED <<products, ticketSales, transactions, now, competency, goals,
                   cashCompetency, value, edits, fn, arg, outcome>>
    /\ UNCHANGED <<cart, customerName, customerWhatsapp, user, submitted>>

\* products.find(p => p.id === code), NoProduct for undefined
FindById(array, code) ==
    IF \E i \in DOMAIN array : array[i].id = code
    THEN array[CHOOSE i \in DOMAIN array :
                   /\ array[i].id = code
                   /\ \A j \in 1..(i - 1) : array[j].id # code]
    ELSE NoProduct

\* products.find(p => p.barcode === searchTerm), NoProduct for undefined
FindByBarcode(array, code) ==
    IF \E i \in DOMAIN array : array[i].barcode = code
    THEN array[CHOOSE i \in DOMAIN array :
                   /\ array[i].barcode = code
                   /\ \A j \in 1..(i - 1) : array[j].barcode # code]
    ELSE NoProduct

handleScan(code) ==
    LET product == FindById(products, code)
    IN  /\ IF product # NoProduct /\ ~(product.stock <= 0)
           THEN SelectProduct(product)
           ELSE UNCHANGED <<selectedProduct, searchTerm, searchResults,
                            quantity, uniqueIdentifier>>
        /\ UNCHANGED pageState
        /\ UNCHANGED <<products, ticketSales, transactions, now, competency,
                       goals, cashCompetency, value, edits, fn, arg, outcome>>
        /\ UNCHANGED <<cart, customerName, customerWhatsapp, user, submitted>>

\* onChange of the quantity input, enabled unless the selected product needs
\* an identifier: setQuantity(Number(e.target.value) || 1)
setQuantity(number) ==
    /\ ~selectedProduct.requiresUniqueIdentifier
    /\ quantity' = IF number = 0 THEN 1 ELSE number
    /\ UNCHANGED pageState
    /\ UNCHANGED <<products, ticketSales, transactions, now, competency, goals,
                   cashCompetency, value, edits, fn, arg, outcome>>
    /\ UNCHANGED <<cart, searchTerm, searchResults, selectedProduct,
                   uniqueIdentifier, customerName, customerWhatsapp, user,
                   submitted>>

\* onChange of the identifier input, shown while the selected product needs one
setUniqueIdentifier(text) ==
    /\ selectedProduct.requiresUniqueIdentifier
    /\ uniqueIdentifier' = text
    /\ UNCHANGED pageState
    /\ UNCHANGED <<products, ticketSales, transactions, now, competency, goals,
                   cashCompetency, value, edits, fn, arg, outcome>>
    /\ UNCHANGED <<cart, searchTerm, searchResults, selectedProduct, quantity,
                   customerName, customerWhatsapp, user, submitted>>

\* prevCart.findIndex(ci => ci.item.id === id && ci.type === 'product'),
\* 0 for -1
ExistingItemIndex(prevCart, id) ==
    IF \E i \in DOMAIN prevCart :
           prevCart[i].item.id = id /\ prevCart[i].type = "product"
    THEN CHOOSE i \in DOMAIN prevCart :
             /\ prevCart[i].item.id = id /\ prevCart[i].type = "product"
             /\ \A j \in 1..(i - 1) :
                    ~(prevCart[j].item.id = id /\ prevCart[j].type = "product")
    ELSE 0

\* a merge that takes the price the product has now
AddToCartRepricing(prevCart, productToAdd, qty) ==
    LET existingItemIndex == ExistingItemIndex(prevCart, productToAdd.id)
    IN  IF existingItemIndex # 0
        THEN LET existingItem == prevCart[existingItemIndex]
                 newQuantity == existingItem.quantity + qty
             IN  IF newQuantity > productToAdd.stock THEN prevCart
                 ELSE [prevCart EXCEPT ![existingItemIndex] =
                          [existingItem EXCEPT !.quantity = newQuantity,
                                               !.unitPrice = productToAdd.price]]
        ELSE Append(prevCart,
                    CartItem(productToAdd, qty, productToAdd.price, <<>>))

\* the updater handleAddItemToCart gives setCart for a product without
\* identifier
AddToCart(prevCart, productToAdd, qty) ==
    LET existingItemIndex == ExistingItemIndex(prevCart, productToAdd.id)
    IN  IF existingItemIndex # 0
        THEN LET existingItem == prevCart[existingItemIndex]
                 newQuantity == existingItem.quantity + qty
             IN  IF newQuantity > productToAdd.stock THEN prevCart
                 ELSE [prevCart EXCEPT ![existingItemIndex] =
                          [existingItem EXCEPT !.quantity = newQuantity]]
        ELSE Append(prevCart,
                    CartItem(productToAdd, qty, productToAdd.price, <<>>))

\* the updater for a product that needs an identifier
AddUniqueToCart(prevCart, productToAdd, identifier) ==
    Append(prevCart,
           CartItem(productToAdd, 1, productToAdd.price, trim(identifier)))

\* the cart the model follows has at most this many lines
MaxCartLines == 2

handleAddItemToCart ==
    LET foundByBarcode == FindByBarcode(products, searchTerm)
        productToAdd == IF selectedProduct # NoProduct THEN selectedProduct
                        ELSE foundByBarcode
        found == selectedProduct = NoProduct /\ foundByBarcode # NoProduct
        Stay == /\ selectedProduct' = productToAdd
                /\ searchTerm' = IF found THEN foundByBarcode.name
                                 ELSE searchTerm
                /\ UNCHANGED <<cart, searchResults, quantity,
                               uniqueIdentifier>>
        Reset == /\ searchTerm' = <<>>
                 /\ searchResults' = <<>>
                 /\ selectedProduct' = NoProduct
                 /\ quantity' = 1
                 /\ uniqueIdentifier' = <<>>
    IN  /\ IF productToAdd = NoProduct THEN Stay
           ELSE IF productToAdd.stock < quantity THEN Stay
           ELSE IF productToAdd.requiresUniqueIdentifier
           THEN IF trim(uniqueIdentifier) = <<>> THEN Stay
                ELSE /\ cart' = AddUniqueToCart(cart, productToAdd,
                                                uniqueIdentifier)
                     /\ Reset
           ELSE /\ cart' = AddToCart(cart, productToAdd, quantity)
                /\ Reset
        /\ Len(cart') <= MaxCartLines
        /\ UNCHANGED pageState
        /\ UNCHANGED <<products, ticketSales, transactions, now, competency,
                       goals, cashCompetency, value, edits, fn, arg, outcome>>
        /\ UNCHANGED <<customerName, customerWhatsapp, user, submitted>>

\* onChange of the customer name input
setCustomerName(text) ==
    /\ customerName' = text
    /\ UNCHANGED pageState
    /\ UNCHANGED <<products, ticketSales, transactions, now, competency, goals,
                   cashCompetency, value, edits, fn, arg, outcome>>
    /\ UNCHANGED <<cart, searchTerm, searchResults, selectedProduct, quantity,
                   uniqueIdentifier, customerWhatsapp, user, submitted>>

\* onChange of the WhatsApp input: setCustomerWhatsapp(formatPhone(value)).
\* A customerWhatsapp that is another one runs the effect of the customer
\* search again: the timer that was set is cleared and a new one is set.
setCustomerWhatsapp(text) ==
    /\ customerWhatsapp' = IF text = <<>> THEN <<>> ELSE formatPhone(text)
    /\ lookupTimer' = (customerWhatsapp' # customerWhatsapp \/ lookupTimer)
    /\ UNCHANGED <<session, network, purchaseForm, cashList, lookups,
                   lookupsIssued, foundCustomer, isCustomerLoading>>
    /\ UNCHANGED <<products, ticketSales, transactions, now, competency, goals,
                   cashCompetency, value, edits, fn, arg, outcome>>
    /\ UNCHANGED <<cart, searchTerm, searchResults, selectedProduct, quantity,
                   uniqueIdentifier, customerName, user, submitted>>

\* a test that looks at the first line of the cart only
requiresCustomerOnFirstLine ==
    /\ cart # <<>>
    /\ cart[1].type = "product" /\ cart[1].item.requiresUniqueIdentifier

\* cart.some(item => item.type === 'product' && requiresUniqueIdentifier)
requiresCustomer ==
    \E i \in DOMAIN cart :
        cart[i].type = "product" /\ cart[i].item.requiresUniqueIdentifier

\* the argument of onAddSale
SalePayload ==
    [items |-> cart, total |-> total, customerName |-> customerName,
     customerWhatsapp |-> customerWhatsapp, customerCnpjCpf |-> value,
     userId |-> user.id, userName |-> user.name]

handleCompleteSale ==
    /\ IF \/ Len(cart) = 0
          \/ user = NoUser
          \/ /\ requiresCustomer
             /\ \/ ~(customerName # <<>> /\ validateName(customerName))
                \/ ~(customerWhatsapp # <<>> /\ validatePhone(customerWhatsapp))
       THEN UNCHANGED <<cart, customerName, customerWhatsapp, value, submitted,
                        foundCustomer>>
       ELSE /\ submitted' = <<SalePayload>>
            /\ cart' = <<>>
            /\ customerName' = <<>>
            /\ customerWhatsapp' = <<>>
            /\ value' = <<>>
            /\ foundCustomer' = NoCustomer
    /\ lookupTimer' = (customerWhatsapp' # customerWhatsapp \/ lookupTimer)
    /\ UNCHANGED <<session, network, purchaseForm, cashList, lookups,
                   lookupsIssued, isCustomerLoading>>
    /\ UNCHANGED <<products, ticketSales, transactions, now, competency, goals,
                   cashCompetency, edits, fn, arg, outcome>>
    /\ UNCHANGED <<searchTerm, searchResults, selectedProduct, quantity,
                   uniqueIdentifier, user>>

handleCancelSale ==
    /\ cart' = <<>>
    /\ customerName' = <<>>
    /\ customerWhatsapp' = <<>>
    /\ value' = <<>>
    /\ foundCustomer' = NoCustomer
    /\ lookupTimer' = (customerWhatsapp' # customerWhatsapp \/ lookupTimer)
    /\ UNCHANGED <<session, network, purchaseForm, cashList, lookups,
                   lookupsIssued, isCustomerLoading>>
    /\ UNCHANGED <<products, ticketSales, transactions, now, competency, goals,
                   cashCompetency, edits, fn, arg, outcome>>
    /\ UNCHANGED <<searchTerm, searchResults, selectedProduct, quantity,
                   uniqueIdentifier, user, submitted>>

(***************************************************************************)
(* The sales screen as a state machine: the products collection is         *)
(* refreshed with other prices and stocks while a sale is being composed.  *)
(***************************************************************************)
Fone(stock) ==
    SaleProduct("p1", <<"7", "1">>, <<"F", "o", "n", "e">>, 100, stock,
                <<"C", "e", "l">>, TRUE)

Cabo(price, stock) ==
    SaleProduct("p2", <<"7", "2">>, <<"C", "a", "b", "o">>, price, stock,
                <<"A", "c", "e">>, FALSE)

SaleCatalogs ==
    {<<Fone(1), Cabo(10, 3)>>,
     <<Fone(1), Cabo(12, 3)>>,
     <<Fone(0), Cabo(12, 1)>>}

SaleClock == Date(2024, 2, 10)

SearchSamples == {<<>>, <<"c">>, <<"f", "o">>, <<"7", "2">>}

ScanSamples == {"p1", "p2", "zz"}

QuantitySamples == {0, 2}

IdentifierSamples == {<<" ">>, <<"i", "1">>}

CustomerNameSamples == {<<"A", "n", "a">>, <<"A", "1">>}

CustomerPhoneSamples ==
    {<<"1", "1", "9", "8", "7", "6", "5", "4", "3", "2", "1">>, <<"1", "2">>}

UserSamples == {NoUser, [id |-> "u1", name |-> "Ana"]}

InitSales ==
    /\ IdleCollections /\ now = SaleClock /\ IdlePages /\ IdleForm /\ IdleCall
    /\ cart = <<>> /\ searchTerm = <<>> /\ searchResults = <<>>
    /\ selectedProduct = NoProduct /\ quantity = 1
    /\ uniqueIdentifier = <<>>
    /\ customerName = <<>> /\ customerWhatsapp = <<>>
    /\ user \in UserSamples /\ submitted = <<>>
    /\ IdlePageState

\* Layout.handleAddSale: the POST of the payload is answered
SaleAnswered ==
    /\ submitted # <<>>
    /\ submitted' = <<>>
    /\ UNCHANGED pageState
    /\ UNCHANGED <<products, ticketSales, transactions, now, competency, goals,
                   cashCompetency, value, edits, fn, arg, outcome>>
    /\ UNCHANGED <<cart, searchTerm, searchResults, selectedProduct, quantity,
                   uniqueIdentifier, customerName, customerWhatsapp, user>>

\* what the user does on the sales screen
SaleScreenEvents ==
    \/ \E text \in SearchSamples : handleSearchChange(text)
    \/ \E i \in 1..2 : handleSelectProduct(i)
    \/ \E code \in ScanSamples : handleScan(code)
    \/ \E number \in QuantitySamples : setQuantity(number)
    \/ \E text \in IdentifierSamples : setUniqueIdentifier(text)
    \/ handleAddItemToCart
    \/ \E text \in CustomerNameSamples : setCustomerName(text)
    \/ \E text \in CustomerPhoneSamples : setCustomerWhatsapp(text)
    \/ handleCompleteSale
    \/ handleCancelSale

\* FetchProducts leaves the sales screen as it is: what the screen holds of
\* a product is the object it read before the refresh.  The model follows one
\* POST at a time, answered before the next event of the screen.
NextSales ==
    \/ /\ submitted = <<>>
       /\ \/ \E data \in SaleCatalogs : FetchProducts(data, SaleClock)
          \/ SaleScreenEvents
    \/ SaleAnswered

SpecSales == InitSales /\ [][NextSales]_vars

\* the sum of unitPrice * quantity over the first n lines
RECURSIVE SumOfLines(_, _)
SumOfLines(items, n) ==
    IF n = 0 THEN 0
    ELSE SumOfLines(items, n - 1) + items[n].unitPrice * items[n].quantity

\* every line of the cart is still there, at its place, for the same product
\* and at the same unitPrice
LinesKeepPrice ==
    \A i \in DOMAIN cart :
        /\ i \in DOMAIN cart'
        /\ cart'[i].item.id = cart[i].item.id
        /\ cart'[i].unitPrice = cart[i].unitPrice

\* C20: a line of the cart keeps its unitPrice through every step that does
\* not empty the cart (more of the same product, other products selected or
\* scanned, a refresh of the products with another price), and a sale handed
\* to onAddSale carries the lines of the cart as they were, with
\* total = sum of unitPrice * quantity over them
C20_FrozenPrice ==
    [][/\ cart' # <<>> => LinesKeepPrice
       /\ submitted' # <<>> /\ submitted = <<>> =>
              /\ cart # <<>>
              /\ submitted'[1].items = cart
              /\ submitted'[1].total = SumOfLines(cart, Len(cart))]_vars

\* a sale is on its way whose line was merged to three units at the price of
\* 10 it was added at, while the products collection now says 12
C20_Witness ==
    /\ submitted # <<>>
    /\ \E i \in DOMAIN submitted[1].items :
           LET line == submitted[1].items[i]
           IN  /\ line.quantity = 3
               /\ line.unitPrice = 10
               /\ FindById(products, line.item.id).price = 12
    /\ submitted[1].total >= 30

(***************************************************************************)
(* App and Layout (src/unnamed/part_010, src/components/Costs.tsx): the    *)
(* session, apiCall, fetchData and the handlers that call them.  A request *)
(* waits in calls until the server answers it; the handler that sent it    *)
(* goes on from there.  The model keeps the rows of products, sales and     *)
(* transactions, and nothing of the other collections.                     *)
(***************************************************************************)

\* what a server, a proxy or the network can make of a request: status 0 is
\* a failed fetch; body "json" parses to a truthy value, "null" to null,
\* "unparsable" makes response.json() throw, "none" has content-length 0
Answer(status, body) == [status |-> status, body |-> body]

Answers ==
    {Answer(200, "json"), Answer(200, "unparsable"), Answer(204, "none"),
     Answer(401, "json"), Answer(500, "json"), Answer(500, "none"),
     Answer(0, "none")}

\* response.ok
Ok(answer) == answer.status >= 200 /\ answer.status <= 299

\* what apiCall resolves to once the answer is there: "null", "data" (the
\* parsed body) or "success" (the object {success: true})
ApiValue(answer) ==
    IF answer.status = 0 THEN "null"
    ELSE IF answer.status = 401 THEN "null"
    ELSE IF answer.status = 204 \/ answer.body = "none" THEN "success"
    ELSE IF answer.body = "unparsable" THEN "null"
    ELSE IF ~Ok(answer) THEN "null"
    ELSE IF answer.body = "null" THEN "null"
    ELSE "data"

\* an apiCall that checks response.ok before anything else
ApiValueOkFirst(answer) ==
    IF answer.status = 0 THEN "null"
    ELSE IF ~Ok(answer) THEN "null"
    ELSE IF answer.status = 204 \/ answer.body = "none" THEN "success"
    ELSE IF answer.body = "unparsable" THEN "null"
    ELSE IF answer.body = "null" THEN "null"
    ELSE "data"

\* the object {success: true} where an array is expected
SuccessObject == <<[success |-> TRUE]>>

\* the request of a handler and the collections it fetches again, in order
Handlers ==
    {"addTransaction", "handleAddPurchase", "deleteProduct", "handleAddSale"}

HandlerMethod(handler) ==
    CASE handler = "addTransaction" -> "POST"
      [] handler = "handleAddPurchase" -> "POST"
      [] handler = "deleteProduct" -> "DELETE"
      [] handler = "handleAddSale" -> "POST"

HandlerEndpoint(handler) ==
    CASE handler = "addTransaction" -> "transactions"
      [] handler = "handleAddPurchase" -> "purchases"
      [] handler = "deleteProduct" -> "products"
      [] handler = "handleAddSale" -> "sales"

HandlerFetches(handler, role) ==
    CASE handler = "addTransaction" -> <<"transactions">>
      [] handler = "handleAddPurchase" ->
             <<"purchases", "products", "transactions", "suppliers">>
      [] handler = "deleteProduct" -> <<"products">>
      [] handler = "handleAddSale" ->
             IF role = "owner" \/ role = "manager"
             THEN <<"sales", "transactions", "products", "customers">>
             ELSE <<"products", "customers">>

\* the GETs of Layout's effect, all sent at once
LoadFetches(role) ==
    IF role = "owner" \/ role = "manager"
    THEN <<"products", "services", "service-orders", "customers",
           "transactions", "purchases", "sales", "users", "suppliers">>
    ELSE <<"products", "services", "service-orders", "customers">>

\* a request on its way: its number, what it asks, the token of the closure
\* that sent it, what its handler fetches next, and whether the Layout that
\* sent it is gone
Request(n, endpoint, method, next, bearer, orphan) ==
    [n |-> n, endpoint |-> endpoint, method |-> method, next |-> next,
     token |-> bearer, orphan |-> orphan]

\* App's render: what is on the screen
Screen ==
    IF isLoading THEN "loading"
    ELSE IF user # NoUser /\ token # NoToken THEN "layout"
    ELSE "login"

\* the requests the model follows
MaxIssued == 6

\* a logout that forgets the session but leaves the token in localStorage
LogoutKeepingStored ==
    /\ storedToken' = storedToken
    /\ user' = NoUser
    /\ token' = NoToken

\* logout(), and with it the end of the Layout that was rendered
Logout ==
    /\ storedToken' = NoToken
    /\ user' = NoUser
    /\ token' = NoToken

\* Layout's state is gone with it: a new Layout starts from empty arrays
Unmount ==
    /\ products' = <<>> /\ ticketSales' = <<>> /\ transactions' = <<>>
    /\ held' = [e \in Collections |-> 0]

Orphaned(requests) == {[c EXCEPT !.orphan = TRUE] : c \in requests}

\* the requests of Layout's effect, numbered from issued + 1
LoadRequests(role, bearer) ==
    {Request(issued + i, LoadFetches(role)[i], "GET", <<>>, bearer, FALSE) :
         i \in DOMAIN LoadFetches(role)}

\* the outcome of an apiCall: the answer it got and what it resolved to
Settled(answer, result) ==
    <<[status |-> answer.status, body |-> answer.body, value |-> result]>>

\* a screen of Layout calls one of the handlers: its request is sent
StartHandler(handler) ==
    /\ Screen = "layout"
    /\ issued < MaxIssued
    /\ calls' = calls \cup
           {Request(issued + 1, HandlerEndpoint(handler),
                    HandlerMethod(handler),
                    HandlerFetches(handler, user.role), token, FALSE)}
    /\ issued' = issued + 1
    /\ UNCHANGED <<products, ticketSales, transactions, user, session, held,
                   settled>>
    /\ UNCHANGED besideLayout

\* the setter fetchData calls with what apiCall resolved
SetCollection(endpoint, data) ==
    /\ products' = IF endpoint = "products" THEN data ELSE products
    /\ ticketSales' = IF endpoint = "sales" THEN data ELSE ticketSales
    /\ transactions' = IF endpoint = "transactions" THEN data
                       ELSE transactions

\* what a handler does with the result of its request: fetchData goes on to
\* the next collection whatever it got, a mutation only after a result
Continues(c, result) == c.method = "GET" \/ result # "null"

\* the request of the handler's next fetchData, if it has one
NextRequest(c, result, gone) ==
    IF Continues(c, result) /\ c.next # <<>> /\ issued < MaxIssued
    THEN {Request(issued + 1, Head(c.next), "GET", Tail(c.next), c.token,
                  gone)}
    ELSE {}

\* what the answer to request c does to Layout's collections
Settle(c, result, data) ==
    IF c.method = "GET" /\ result # "null" /\ ~c.orphan
          /\ c.endpoint \in Collections
    THEN /\ SetCollection(c.endpoint,
                          IF result = "success" THEN SuccessObject ELSE data)
         /\ held' = [held EXCEPT ![c.endpoint] = c.n]
    ELSE UNCHANGED <<products, ticketSales, transactions, held>>

\* the server answers a request of apiCall
Answered(c, answer, data) ==
    LET result == ApiValue(answer)
        expired == answer.status = 401
        following == NextRequest(c, result, c.orphan \/ expired)
    IN  /\ c \in calls
        /\ c.endpoint \in Endpoints
        /\ settled' = Settled(answer, result)
        /\ issued' = issued + Cardinality(following)
        /\ IF expired
           THEN /\ Logout
                /\ Unmount
                /\ isLoading' = isLoading
                /\ calls' = Orphaned(calls \ {c}) \cup following
           ELSE /\ Settle(c, result, data)
                /\ calls' = (calls \ {c}) \cup following
                /\ UNCHANGED <<user, session>>
        /\ UNCHANGED besideLayout

\* apiCall is called through a context value that has no token: no request
ApiCallWithoutToken ==
    /\ ~isLoading
    /\ token = NoToken
    /\ Logout
    /\ Unmount
    /\ settled' = <<[status |-> -1, body |-> "none", value |-> "null"]>>
    /\ calls' = Orphaned(calls)
    /\ UNCHANGED <<isLoading, issued>>
    /\ UNCHANGED besideLayout

\* the request of verifyToken
VerifyRequest(bearer) == Request(0, "auth/me", "GET", <<>>, bearer, FALSE)

\* the answer to verifyToken's request
VerifyAnswered(c, answer, userData) ==
    /\ c \in calls
    /\ c.endpoint = "auth/me"
    /\ isLoading' = FALSE
    /\ IF Ok(answer) /\ answer.body \in {"json", "null"}
       THEN /\ user' = IF answer.body = "json" THEN userData ELSE NoUser
            /\ token' = c.token
            /\ storedToken' = storedToken
            /\ IF answer.body = "json"
               THEN /\ calls' = (calls \ {c}) \cup
                                LoadRequests(userData.role, c.token)
                    /\ issued' = issued + Len(LoadFetches(userData.role))
               ELSE /\ calls' = calls \ {c}
                    /\ issued' = issued
       ELSE /\ Logout
            /\ calls' = calls \ {c}
            /\ issued' = issued
    /\ UNCHANGED <<products, ticketSales, transactions, held, settled>>
    /\ UNCHANGED besideLayout

\* Login calls login(data.user, data.token); Layout is rendered anew
login(userData, userToken) ==
    /\ Screen = "login"
    /\ storedToken' = userToken
    /\ user' = userData
    /\ token' = userToken
    /\ issued + Len(LoadFetches(userData.role)) <= MaxIssued
    /\ calls' = calls \cup LoadRequests(userData.role, userToken)
    /\ issued' = issued + Len(LoadFetches(userData.role))
    /\ UNCHANGED <<products, ticketSales, transactions, isLoading, held,
                   settled>>
    /\ UNCHANGED besideLayout

Technician == [id |-> "u1", name |-> "Ana", role |-> "technician"]

TokenSamples == {"t2"}

ProductBodies == {<<Product("p1", 2, 3)>>, <<Product("p1", 2, 2)>>}

SaleBodies == {<<Sale(Date(2024, 2, 5), 500, <<ProductItem("p1", 2, 10)>>)>>}

TransactionBodies ==
    {<<Transaction(500, "income", "Faturamento de Venda", "Pago",
                   Date(2024, 2, 5))>>}

\* the parsed bodies a GET of the endpoint is answered with
Bodies(endpoint) ==
    CASE endpoint = "products" -> ProductBodies
      [] endpoint = "sales" -> SaleBodies
      [] endpoint = "transactions" -> TransactionBodies
      [] OTHER -> {<<>>}

\* App after its first render and the start of verifyToken
InitLayout ==
    /\ IdleCollections /\ now = SaleClock /\ IdlePages /\ IdleForm /\ IdleCall
    /\ cart = <<>> /\ searchTerm = <<>> /\ searchResults = <<>>
    /\ selectedProduct = NoProduct /\ quantity = 1
    /\ uniqueIdentifier = <<>>
    /\ customerName = <<>> /\ customerWhatsapp = <<>>
    /\ submitted = <<>>
    /\ user = NoUser
    /\ storedToken \in {NoToken, "t1"}
    /\ token = storedToken
    /\ isLoading = (storedToken # NoToken)
    /\ calls = IF storedToken # NoToken THEN {VerifyRequest(storedToken)}
               ELSE {}
    /\ issued = 0
    /\ held = [e \in Collections |-> 0]
    /\ settled = <<>>
    /\ IdleForms

NextLayout ==
    \/ \E c \in calls, answer \in Answers :
           VerifyAnswered(c, answer, Technician)
    \/ \E userToken \in TokenSamples : login(Technician, userToken)
    \/ \E handler \in Handlers : StartHandler(handler)
    \/ \E c \in calls, answer \in Answers :
           \E data \in Bodies(c.endpoint) : Answered(c, answer, data)
    \/ ApiCallWithoutToken

SpecLayout == InitLayout /\ [][NextLayout]_vars

\* a GET of the endpoint, sent by the Layout on the screen, is answered in
\* this step
FetchSettles(endpoint) ==
    \E c \in calls :
        /\ c.endpoint = endpoint /\ c.method = "GET" /\ ~c.orphan
        /\ \A d \in calls' : d.n # c.n

\* while a Layout is on the screen its products change only in a step that
\* answers one of its GET products requests
ProductsOnlyByFetch ==
    [][Screen = "layout" /\ Screen' = "layout" /\ products' # products
           => FetchSettles("products")]_vars

\* C21: while a Layout is on the screen, whatever handlers run and however
\* their requests are answered, its products change only by being replaced
\* with the body of the response to a GET products
C21_AsClaimed ==
    [][Screen = "layout" /\ Screen' = "layout" /\ products' # products
           => /\ FetchSettles("products")
              /\ settled'[1].body = "json"
              /\ products' \in ProductBodies]_vars

\* the sales screen over a products collection that stays as it was loaded
InitCart ==
    /\ products \in SaleCatalogs
    /\ ticketSales = <<>> /\ transactions = <<>>
    /\ now = SaleClock /\ IdlePages /\ IdleForm /\ IdleCall
    /\ cart = <<>> /\ searchTerm = <<>> /\ searchResults = <<>>
    /\ selectedProduct = NoProduct /\ quantity = 1
    /\ uniqueIdentifier = <<>>
    /\ customerName = <<>> /\ customerWhatsapp = <<>>
    /\ user \in UserSamples /\ submitted = <<>>
    /\ IdlePageState

NextCart ==
    \/ submitted = <<>> /\ SaleScreenEvents
    \/ SaleAnswered

SpecCart == InitCart /\ [][NextCart]_vars

\* C22: over a products collection that does not change, the quantities of
\* the cart lines of a product add up to at most its stock, be it one merged
\* line or one line of quantity 1 per identifier
C22_AsClaimed ==
    \A i \in DOMAIN products :
        SumQuantities(cart, products[i].id) <= products[i].stock

(***************************************************************************)
(* PurchaseModal: the items of a purchase order.                           *)
(***************************************************************************)

\* where search first occurs in str, 0 when it does not
IndexOf(str, search) ==
    IF \E i \in 1..(Len(str) - Len(search) + 1) :
           SubSeq(str, i, i + Len(search) - 1) = search
    THEN CHOOSE i \in 1..(Len(str) - Len(search) + 1) :
             /\ SubSeq(str, i, i + Len(search) - 1) = search
             /\ \A j \in 1..(i - 1) : SubSeq(str, j, j + Len(search) - 1) # search
    ELSE 0

\* str.replace(search, replacement) with a string pattern: the first occurrence
ReplaceFirst(str, search, replacement) ==
    LET at == IndexOf(str, search)
    IN  IF at = 0 THEN str
        ELSE SubSeq(str, 1, at - 1) \o replacement
                 \o SubSeq(str, at + Len(search), Len(str))

IsNotDot(c) == c # "."

parseCurrency(text) ==
    IF text = <<>> THEN I(0)
    ELSE LET numericString ==
                 ReplaceFirst(
                     SelectSeq(ReplaceFirst(text, <<"R", "$", " ">>, <<>>), IsNotDot),
                     <<",">>, <<".">>)
             parsed == parseFloat(numericString)
         IN  IF IsNaN(parsed) \/ parsed = I(0) THEN I(0) ELSE parsed

\* String(x) of a number with at most two decimal places
NumberToString(x) ==
    LET whole == Abs(x.n) \div x.d
        cents == ((Abs(x.n) % x.d) * 100) \div x.d
        decimals ==
            IF cents = 0 THEN <<>>
            ELSE IF cents % 10 = 0 THEN <<".">> \o IntDigits(cents \div 10)
            ELSE <<".">> \o (IF cents < 10 THEN <<"0">> ELSE <<>>) \o IntDigits(cents)
    IN  (IF x.n < 0 THEN <<"-">> ELSE <<>>) \o IntDigits(whole) \o decimals

PurchaseItem(productId, productName, qty, cost) ==
    [productId |-> productId, productName |-> productName,
     quantity |-> qty, unitCost |-> cost]

\* the empty slot an assignment past the end of the array leaves behind
EmptySlot == [productId |-> "", productName |-> <<>>,
              quantity |-> NaN, unitCost |-> NaN]

\* updatedItems[index] = newItem on a copy of array (index counts from 0)
AssignAt(array, index, newItem) ==
    [k \in 1..(IF index + 1 > Len(array) THEN index + 1 ELSE Len(array)) |->
        IF k = index + 1 THEN newItem
        ELSE IF k <= Len(array) THEN array[k]
        ELSE EmptySlot]

\* array.filter((_, index) => index !== indexToRemove) (index counts from 0)
WithoutIndex(array, indexToRemove) ==
    [k \in 1..(Len(array) - 1) |->
        IF k <= indexToRemove THEN array[k] ELSE array[k + 1]]

UnchangedByPurchaseForm ==
    UNCHANGED <<products, ticketSales, transactions, now, competency, goals,
                cashCompetency, value, edits, fn, arg, outcome, saleScreen,
                session, network, cashList, customerLookup>>

PurchaseSearchChange(text) ==
    /\ itemSearchTerm' = text
    /\ itemProduct' = NoProduct
    /\ itemResults' =
           IF Len(text) < 1 THEN <<>>
           ELSE LET lowerCaseValue == toLowerCase(text)
                    Matches(p) == MatchesSearch(p, lowerCaseValue)
                IN  SelectSeq(products, Matches)
    /\ UNCHANGED <<purchaseItems, editingItemIndex, itemQuantity, unitCost,
                   editedPosition>>
    /\ UnchangedByPurchaseForm

\* a click on one row of the list of search results
PurchaseSelectProduct(i) ==
    /\ i \in DOMAIN itemResults
    /\ itemProduct' = itemResults[i]
    /\ itemSearchTerm' = itemResults[i].name
    /\ itemResults' = <<>>
    /\ UNCHANGED <<purchaseItems, editingItemIndex, itemQuantity, unitCost,
                   editedPosition>>
    /\ UnchangedByPurchaseForm

\* the quantity input
setItemQuantity(text) ==
    /\ itemQuantity' = text
    /\ UNCHANGED <<purchaseItems, editingItemIndex, itemProduct,
                   itemSearchTerm, itemResults, unitCost, editedPosition>>
    /\ UnchangedByPurchaseForm

\* the unit cost input
handleCurrencyChange(text) ==
    /\ unitCost' = formatMoney(text)
    /\ UNCHANGED <<purchaseItems, editingItemIndex, itemProduct,
                   itemSearchTerm, itemResults, itemQuantity, editedPosition>>
    /\ UnchangedByPurchaseForm

productToAdd ==
    IF itemProduct # NoProduct THEN itemProduct
    ELSE FindByBarcode(products, itemSearchTerm)

numericQuantity == parseFloat(itemQuantity)

numericUnitCost == parseCurrency(unitCost)

\* the item handleSaveItem builds from the fields
newItem ==
    PurchaseItem(productToAdd.id, productToAdd.name, numericQuantity, numericUnitCost)

\* the checks of handleSaveItem that end it with an error message
SaveItemRejected ==
    \/ productToAdd = NoProduct
    \/ IsNaN(numericQuantity) \/ JsLe(numericQuantity, I(0))
    \/ numericUnitCost = I(0) \/ JsGt(I(0), numericUnitCost)

MaxItems == 3

handleSaveItem ==
    /\ IF SaveItemRejected
       THEN UNCHANGED purchaseForm
       ELSE /\ purchaseItems' =
                   IF editingItemIndex # NoIndex
                   THEN AssignAt(purchaseItems, editingItemIndex, newItem)
                   ELSE Append(purchaseItems, newItem)
            /\ Len(purchaseItems') <= MaxItems
            /\ itemSearchTerm' = <<>>
            /\ itemProduct' = NoProduct
            /\ itemResults' = <<>>
            /\ itemQuantity' = <<"1">>
            /\ unitCost' = <<>>
            /\ editingItemIndex' = NoIndex
            /\ editedPosition' = NoIndex
    /\ UnchangedByPurchaseForm

\* the edit button of the row of items[indexToEdit]
handleEditItem(indexToEdit) ==
    /\ indexToEdit + 1 \in DOMAIN purchaseItems
    /\ purchaseItems[indexToEdit + 1] # EmptySlot
    /\ LET item == purchaseItems[indexToEdit + 1]
           product == FindById(products, item.productId)
       IN  /\ IF product # NoProduct
              THEN itemProduct' = product /\ itemSearchTerm' = product.name
              ELSE UNCHANGED <<itemProduct, itemSearchTerm>>
           /\ itemQuantity' = NumberToString(item.quantity)
           /\ unitCost' =
                  formatMoney(NumberToString(JsMul(item.unitCost, I(100))))
    /\ editingItemIndex' = indexToEdit
    /\ editedPosition' = indexToEdit
    /\ UNCHANGED <<purchaseItems, itemResults>>
    /\ UnchangedByPurchaseForm

\* the remove button of the row of items[indexToRemove]
handleRemoveItem(indexToRemove) ==
    /\ indexToRemove + 1 \in DOMAIN purchaseItems
    /\ purchaseItems[indexToRemove + 1] # EmptySlot
    /\ purchaseItems' = WithoutIndex(purchaseItems, indexToRemove)
    /\ IF editingItemIndex = indexToRemove
       THEN /\ editingItemIndex' = NoIndex
            /\ itemSearchTerm' = <<>>
            /\ itemProduct' = NoProduct
            /\ itemQuantity' = <<"1">>
            /\ unitCost' = <<>>
       ELSE UNCHANGED <<editingItemIndex, itemSearchTerm, itemProduct,
                        itemQuantity, unitCost>>
    /\ editedPosition' =
           IF editedPosition = NoIndex \/ editedPosition = indexToRemove
           THEN NoIndex
           ELSE IF indexToRemove < editedPosition THEN editedPosition - 1
           ELSE editedPosition
    /\ UNCHANGED itemResults
    /\ UnchangedByPurchaseForm

ItemSearchSamples == {<<"7", "2">>, <<"o">>}

ItemQuantitySamples == {<<"2">>, <<"0">>}

UnitCostSamples == {<<"1", "5", "0">>}

InitPurchase ==
    /\ products = <<Fone(1), Cabo(10, 3)>>
    /\ ticketSales = <<>> /\ transactions = <<>>
    /\ now = SaleClock /\ IdlePages /\ IdleForm /\ IdleCall /\ IdleSale
    /\ IdlePageState

NextPurchase ==
    \/ \E text \in ItemSearchSamples : PurchaseSearchChange(text)
    \/ \E i \in 1..2 : PurchaseSelectProduct(i)
    \/ \E text \in ItemQuantitySamples : setItemQuantity(text)
    \/ \E text \in UnitCostSamples : handleCurrencyChange(text)
    \/ handleSaveItem
    \/ \E i \in 0..(MaxItems - 1) : handleEditItem(i)
    \/ \E i \in 0..(MaxItems - 1) : handleRemoveItem(i)

SpecPurchase == InitPurchase /\ [][NextPurchase]_vars

\* a step of handleSaveItem that stores the item built from the fields while
\* an item picked by handleEditItem is still in the list
SavesEditedItem ==
    /\ editedPosition # NoIndex
    /\ ~SaveItemRejected
    /\ editingItemIndex' = NoIndex /\ editedPosition' = NoIndex
    /\ Len(purchaseItems') >= Len(purchaseItems)

\* C23: after handleEditItem(i) and removals of other items, handleSaveItem
\* replaces exactly the item that was picked: the list keeps its length and
\* every other item stays as it was
C23_AsClaimed ==
    [][SavesEditedItem
           => purchaseItems' =
                  [purchaseItems EXCEPT ![editedPosition + 1] = newItem]]_vars

(***************************************************************************)
(* The Cash page: the pages of the list of transactions.                   *)
(***************************************************************************)
recordsPerPage == 15

\* array.sort((a, b) => new Date(b.timestamp) - new Date(a.timestamp)):
\* stable, the latest first
SortByTimestampDesc(array) ==
    LET Key(i) == DateKey(array[i].timestamp)
        Rank(i) ==
            Cardinality({j \in DOMAIN array :
                            Key(j) > Key(i) \/ (Key(j) = Key(i) /\ j <= i)})
    IN  [k \in DOMAIN array |-> array[CHOOSE i \in DOMAIN array : Rank(i) = k]]

filteredTransactions ==
    LET IsType(t) == typeFilter = "All" \/ t.type = typeFilter
        IsStatus(t) == statusFilter = "All" \/ t.status = statusFilter
    IN  SortByTimestampDesc(
            SelectSeq(SelectSeq(transactionsForCompetency(transactions, cashCompetency),
                                IsType),
                      IsStatus))

\* Math.ceil(length / perPage)
PagesOf(length, perPage) == (length + perPage - 1) \div perPage

nPages == PagesOf(Len(filteredTransactions), recordsPerPage)

indexOfLastRecord == currentPage * recordsPerPage

indexOfFirstRecord == indexOfLastRecord - recordsPerPage

\* filteredTransactions.slice(indexOfFirstRecord, indexOfLastRecord)
currentRecords ==
    SubSeq(filteredTransactions, indexOfFirstRecord + 1,
           IF indexOfLastRecord < Len(filteredTransactions)
           THEN indexOfLastRecord ELSE Len(filteredTransactions))

UnchangedByCashList ==
    UNCHANGED <<products, ticketSales, transactions, now, competency, goals,
                cashCompetency, value, edits, fn, arg, outcome, saleScreen,
                session, network, purchaseForm, customerLookup>>

\* the status select, and the effect that shows the first page when the
\* filter is another one
setStatusFilter(status) ==
    /\ statusFilter' = status
    /\ currentPage' = IF status # statusFilter THEN 1 ELSE currentPage
    /\ UNCHANGED typeFilter
    /\ UnchangedByCashList

setTypeFilter(type) ==
    /\ typeFilter' = type
    /\ currentPage' = IF type # typeFilter THEN 1 ELSE currentPage
    /\ UNCHANGED statusFilter
    /\ UnchangedByCashList

nextPage ==
    /\ currentPage' = IF currentPage < nPages THEN currentPage + 1 ELSE currentPage
    /\ UNCHANGED <<statusFilter, typeFilter>>
    /\ UnchangedByCashList

prevPage ==
    /\ currentPage' = IF currentPage > 1 THEN currentPage - 1 ELSE currentPage
    /\ UNCHANGED <<statusFilter, typeFilter>>
    /\ UnchangedByCashList

\* paid incomes of February 2024 followed by pending expenses of that month
CashRows(paid, pending) ==
    [i \in 1..(paid + pending) |->
        IF i <= paid
        THEN Transaction(500, "income", "Faturamento de Venda", "Pago",
                         Date(2024, 2, 5))
        ELSE Transaction(300, "expense", "Aluguel", "Pendente", Date(2024, 2, 7))]

PaidRowCounts == {0, recordsPerPage, recordsPerPage + 1, 2 * recordsPerPage + 1}

PendingRowCounts == {0, 1, recordsPerPage + 1}

CashListBodies ==
    {CashRows(paid, pending) : paid \in PaidRowCounts, pending \in PendingRowCounts}

StatusFilters == {"All", "Pago", "Pendente"}

TypeFilters == {"All", "income", "expense"}

CashListMonths == {[y |-> 2024, m |-> 2], [y |-> 2024, m |-> 3]}

InitCashList ==
    /\ products = <<>> /\ ticketSales = <<>>
    /\ transactions \in CashListBodies
    /\ now = Date(2024, 2, 10)
    /\ cashCompetency = CurrentCompetency
    /\ competency = NoCompetency /\ goals = DefaultGoals
    /\ IdleForm /\ IdleCall /\ IdleSale /\ IdlePageState

NextCashList ==
    \/ \E data \in CashListBodies : FetchTransactions(data, now)
    \/ \E month \in CashListMonths : handleCashCompetencyChange(month)
    \/ \E status \in StatusFilters : setStatusFilter(status)
    \/ \E type \in TypeFilters : setTypeFilter(type)
    \/ nextPage
    \/ prevPage

SpecCashList == InitCashList /\ [][NextCashList]_vars

\* C24: whatever the filters, the clicks on next and previous and the
\* refreshes of the transactions, the page of the list is one of
\* 1..max(1, nPages), so that a list with records never shows an empty page
C24_AsClaimed ==
    /\ currentPage \in 1..(IF nPages > 1 THEN nPages ELSE 1)
    /\ filteredTransactions # <<>> => currentRecords # <<>>

(***************************************************************************)
(* The sales screen: the debounced search of the customer by phone.        *)
(***************************************************************************)
\* a customer, whose id is the phone number
Customer(id, name, cnpjCpf) == [id |-> id, name |-> name, cnpjCpf |-> cnpjCpf]

\* customerWhatsapp.replace(/\D/g, '')
cleanedPhone == StripNonDigits(customerWhatsapp)

MinLookupDigits == 10

MaxLookups == 3

UnchangedByLookup ==
    UNCHANGED <<products, ticketSales, transactions, now, competency, goals,
                cashCompetency, edits, fn, arg, outcome, cart, searchTerm,
                searchResults, selectedProduct, quantity, uniqueIdentifier,
                customerWhatsapp, user, submitted, session, network,
                purchaseForm, cashList>>

\* the callback of setTimeout, up to its await
LookupTimerFires ==
    /\ lookupTimer
    /\ lookupTimer' = FALSE
    /\ IF Len(cleanedPhone) >= MinLookupDigits
       THEN /\ lookupsIssued < MaxLookups
            /\ isCustomerLoading' = TRUE
            /\ lookups' = lookups \cup {[n |-> lookupsIssued + 1, phone |-> cleanedPhone]}
            /\ lookupsIssued' = lookupsIssued + 1
            /\ UNCHANGED foundCustomer
       ELSE /\ foundCustomer' = NoCustomer
            /\ UNCHANGED <<lookups, lookupsIssued, isCustomerLoading>>
    /\ UNCHANGED <<customerName, value>>
    /\ UnchangedByLookup

\* the callback of setTimeout after its await: customer is what apiCall
\* resolved to, NoCustomer for null
LookupAnswered(c, customer) ==
    /\ c \in lookups
    /\ lookups' = lookups \ {c}
    /\ IF customer # NoCustomer
       THEN /\ foundCustomer' = customer
            /\ customerName' = customer.name
            /\ value' = customer.cnpjCpf
       ELSE /\ foundCustomer' = NoCustomer
            /\ UNCHANGED <<customerName, value>>
    /\ isCustomerLoading' = FALSE
    /\ UNCHANGED <<lookupTimer, lookupsIssued>>
    /\ UnchangedByLookup

AnaPhone == <<"1", "1", "9", "8", "7", "6", "5", "4", "3", "2", "1">>

BiaPhone == <<"1", "1", "9", "8", "7", "6", "5", "4", "3", "2", "2">>

\* the customers the server knows
CustomerRecords ==
    {Customer(AnaPhone, <<"A", "n", "a">>, <<>>),
     Customer(BiaPhone, <<"B", "i", "a">>, <<"1", "2", "3">>)}

\* what GET customers/<phone> can resolve to
LookupResults(phone) ==
    {r \in CustomerRecords : r.id = phone} \cup {NoCustomer}

LookupPhoneSamples == {AnaPhone, BiaPhone, <<"1", "1", "9">>, <<>>}

InitLookup ==
    /\ products = <<Fone(1), Cabo(10, 3)>>
    /\ ticketSales = <<>> /\ transactions = <<>>
    /\ now = SaleClock /\ IdlePages /\ IdleForm /\ IdleCall /\ IdleSale
    /\ IdlePageState

NextLookup ==
    \/ \E text \in LookupPhoneSamples : setCustomerWhatsapp(text)
    \/ \E text \in CustomerNameSamples : setCustomerName(text)
    \/ LookupTimerFires
    \/ \E c \in lookups : \E customer \in LookupResults(c.phone) :
           LookupAnswered(c, customer)

SpecLookup == InitLookup /\ [][NextLookup]_vars

\* a step in which the answer to a lookup fills the name of the customer
LookupFills(c) ==
    /\ c \in lookups /\ lookups' = lookups \ {c}
    /\ foundCustomer' # NoCustomer
    /\ customerName' = foundCustomer'.name

\* C25: the name and the document of the customer are filled only with the
\* answer to the lookup of the phone that is in the field, and
\* isCustomerLoading is false only when no lookup waits for its answer
C25_AsClaimed ==
    /\ [][\A c \in lookups : LookupFills(c) => c.phone = cleanedPhone]_vars
    /\ [](~isCustomerLoading => lookups = {})

\* C26: when handlers of Layout run at the same time, a collection is never
\* overwritten by the response to a GET that was sent before the GET whose
\* response it holds, so that once every request is answered each collection
\* holds the response to the GET of it that was sent last
C26_AsClaimed ==
    [][\A e \in Collections :
          (Screen = "layout" /\ Screen' = "layout" /\ held'[e] # held[e])
              => held'[e] > held[e]]_vars

\* C27: apiCall always resolves, and to something other than null only when
\* the status of the response was 2xx; without a token (status -1 here), on a
\* 401, on any other status, on a network error and on a body that does not
\* parse it resolves to null
C27_AsClaimed ==
    settled # <<>> /\ settled[1].value # "null"
        => settled[1].status >= 200 /\ settled[1].status <= 299

\* the verification of the stored token succeeded: the response was ok and
\* its body could be parsed
VerifyOk(answer) == Ok(answer) /\ answer.body \in {"json", "null"}

\* a step in which apiCall finds no token or gets a 401, or in which the
\* verification of the stored token fails
Invalidates ==
    \/ ApiCallWithoutToken
    \/ \E c \in calls : \E data \in Bodies(c.endpoint) :
           Answered(c, Answer(401, "json"), data)
    \/ \E c \in calls, answer \in Answers :
           ~VerifyOk(answer) /\ VerifyAnswered(c, answer, Technician)

LoggedIn == user # NoUser /\ token # NoToken

InvalidationClearsSession ==
    [][Invalidates
           => storedToken' = NoToken /\ user' = NoUser /\ token' = NoToken]_vars

\* C28 as claimed: an apiCall without token, a 401 and a failed verification
\* of the stored token remove the stored token and make user and token null;
\* App renders Layout when user and token are both there and Login in every
\* other state
C28_AsClaimed ==
    /\ InvalidationClearsSession
    /\ [](Screen = "layout" <=> LoggedIn)
    /\ [](Screen = "login" <=> ~LoggedIn)

\* C28, amended: as claimed, but Login is rendered in the other states only
\* once the verification of the stored token is over; while it runs App
\* renders neither Layout nor Login
C28_SessionInvalidation ==
    /\ InvalidationClearsSession
    /\ [](Screen = "layout" => LoggedIn)
    /\ [](~isLoading => (Screen = "layout" <=> LoggedIn))
    /\ [](~isLoading => (Screen = "login" <=> ~LoggedIn))
    /\ [](isLoading => Screen = "loading")

\* a session that loaded collections was ended by a 401
C28_Witness ==
    /\ settled # <<>> /\ settled[1].status = 401
    /\ issued > 1
    /\ user = NoUser /\ token = NoToken /\ storedToken = NoToken
    /\ Screen = "login"

\* the competency month that follows month
MonthAfter(month) ==
    IF month.m = 12 THEN [y |-> month.y + 1, m |-> 1]
    ELSE [y |-> month.y, m |-> month.m + 1]

HasIdentifiedLine(lines) ==
    \E i \in DOMAIN lines :
        lines[i].type = "product" /\ lines[i].item.requiresUniqueIdentifier

\* the conditions under which the claim lets a sale be submitted
SaleMayBeSubmitted ==
    /\ cart # <<>>
    /\ user # NoUser
    /\ HasIdentifiedLine(cart)
           => /\ customerName # <<>> /\ validateName(customerName)
              /\ customerWhatsapp # <<>> /\ validatePhone(customerWhatsapp)

\* C30: handleCompleteSale calls onAddSale only for a cart with lines, a
\* logged-in user and, when a line needs an identifier, a valid customer name
\* and a valid WhatsApp number; when a check fails nothing is submitted and
\* the cart and the fields of the customer stay as they are
C30_SubmitsOnlyChecked ==
    [][/\ (submitted' # <<>> /\ submitted' # submitted)
              => SaleMayBeSubmitted /\ submitted' = <<SalePayload>>
       /\ (handleCompleteSale /\ ~SaleMayBeSubmitted)
              => UNCHANGED <<submitted, cart, customerName, customerWhatsapp,
                             value>>]_vars

\* a sale with a line sold by identifier, after a line that is not, went out
\* with the name and the number of the customer
C30_Witness ==
    /\ submitted # <<>>
    /\ Len(submitted[1].items) = 2
    /\ ~submitted[1].items[1].item.requiresUniqueIdentifier
    /\ HasIdentifiedLine(submitted[1].items)
    /\ validateName(submitted[1].customerName)
    /\ submitted[1].customerWhatsapp # <<>>
    /\ validatePhone(submitted[1].customerWhatsapp)


====
